---- MODULE Spec2Model ----
(***************************************************************************)
(* Model of tensorflow_probability's JointDistribution calling convention  *)
(* (joint_distribution.py): the resolver _resolve_value_from_args, the     *)
(* public sample / sample_distributions / log_prob / prob entry points and *)
(* the per-context cache _single_sample_distributions, the resolution of   *)
(* component names and the broadcast check of the per-component results;   *)
(* of the Distribution base class (distribution.py): the public wrappers   *)
(* of the primitives, the parameters property and copy; and of the window  *)
(* sizes of windowed adaptation (windowed_sampling_test.py).               *)
(***************************************************************************)
EXTENDS Integers, Sequences, FiniteSets, TLC

VARIABLES jd, cache, nbuilds, last, rcall, nres, parts, dist, params, win

VARIABLES ctl, walk, shp

vars == <<jd, cache, nbuilds, last, rcall, nres, parts, dist, params, win,
          ctl, walk, shp>>

\* The value of a variable in the specifications that do not use it.
Idle == [op |-> "idle"]

\* The variables of the specifications of control dependencies, of the
\* bijector walk and of the static shapes, for the specifications above them.
LaterVars == <<ctl, walk, shp>>

LaterIdle == ctl = Idle /\ walk = Idle /\ shp = Idle

(***************************************************************************)
(* Bounds.                                                                 *)
(***************************************************************************)
MaxArgs == 3

MaxLeaf == 2

MaxBuilds == 2

MaxGraphs == 1

(***************************************************************************)
(* Python values.  Every value is a record of the same four fields so that *)
(* any two values can be compared:                                         *)
(*   none   the Python None                                                *)
(*   leaf   a scalar tensor (or a scalar dtype), x is its content          *)
(*   str    a Python string, keys[1] is its content                        *)
(*   sample a tensor freshly drawn from a component distribution           *)
(*   list   a Python list / tuple, items its elements                      *)
(*   odict  a collections.OrderedDict, keys and items aligned              *)
(*   dict   a plain dict, keys and items aligned                           *)
(*   absent no value at all (an argument that was not passed)              *)
(***************************************************************************)
None == [tag |-> "none", x |-> 0, keys |-> <<>>, items |-> <<>>]

Absent == [tag |-> "absent", x |-> 0, keys |-> <<>>, items |-> <<>>]

Leaf(v) == [tag |-> "leaf", x |-> v, keys |-> <<>>, items |-> <<>>]

Str(s) == [tag |-> "str", x |-> 0, keys |-> <<s>>, items |-> <<>>]

Sampled == [tag |-> "sample", x |-> 0, keys |-> <<>>, items |-> <<>>]

ListOf(xs) == [tag |-> "list", x |-> 0, keys |-> <<>>, items |-> xs]

DictOf(kind, ks, xs) == [tag |-> kind, x |-> 0, keys |-> ks, items |-> xs]

Float32 == Leaf(0)

Range(s) == {s[i] : i \in DOMAIN s}

IsNested(v) == v.tag \in {"list", "odict", "dict"}

\* tf.nest.assert_same_structure(a, b, check_types=False) does not raise:
\* two atoms match (None is an atom), an atom never matches a nested
\* structure, two nested structures match when they have the same length
\* (and, for mappings, the same keys) and match element by element.  The
\* calls drawn below never compare a mapping with a sequence of the same
\* length, the one case in which tf.nest's answer depends on its version.
RECURSIVE SameStructure(_, _)
SameStructure(a, b) ==
  IF ~IsNested(a) /\ ~IsNested(b) THEN TRUE
  ELSE IF ~IsNested(a) \/ ~IsNested(b) THEN FALSE
  ELSE /\ Len(a.items) = Len(b.items)
       /\ (a.tag = "list") = (b.tag = "list")
       /\ Range(a.keys) = Range(b.keys)
       /\ \A i \in DOMAIN a.items : SameStructure(a.items[i], b.items[i])

(***************************************************************************)
(* Keyword arguments: a function from the keywords passed to their values. *)
(***************************************************************************)
EmptyKw == [k \in {} |-> None]

Restrict(kw, S) == [k \in S |-> kw[k]]

KwGet(kw, k, default) == IF k \in DOMAIN kw THEN kw[k] ELSE default

(***************************************************************************)
(* The joint model: its structure kind, the resolved flat names of its     *)
(* components in declaration order, and each component's dtype structure.  *)
(* The structure has one top-level entry per component (as in the          *)
(* Sequential and Named models), so len(dtype) is the number of            *)
(* components; a component's own dtype is a scalar or a list of scalars.   *)
(***************************************************************************)
ComponentNames == <<"z", "y", "x">>

FORBIDDEN_COMPONENT_NAMES == {"value", "name"}

Prefix(s, n) == [i \in 1..n |-> s[i]]

ModelUnflatten(model, xs) ==
  IF model.kind = "list" THEN ListOf(xs) ELSE DictOf(model.kind, model.names, xs)

ModelFlatten(v) == v.items

ModelDtype(model) == ModelUnflatten(model, model.ctypes)

Models ==
  { [kind |-> k, names |-> Prefix(ComponentNames, n),
     ctypes |-> [i \in 1..n |-> Float32]] :
      k \in {"list", "odict", "dict"}, n \in 1..Len(ComponentNames) }
  \cup
  { [kind |-> k, names |-> Prefix(ComponentNames, 1),
     ctypes |-> <<ListOf(<<Float32, Float32>>)>>] :
      k \in {"list", "odict", "dict"} }

(***************************************************************************)
(* _resolve_value_from_args                                                *)
(***************************************************************************)
\* value = kwargs.pop('value', None)
PopValue(kwargs) == KwGet(kwargs, "value", None)

\* kwargs.get in place of kwargs.pop: the value keyword stays in kwargs.
PopRestKeepsValue(kwargs) == kwargs

PopRest(kwargs) == Restrict(kwargs, DOMAIN kwargs \ {"value"})

\* if value is not None
RespectValue(value) == value # None

\* Every keyword counted as matched, whether or not it names a component.
MatchedKwargsAllKeywords(kwargs, flat_names) == DOMAIN kwargs

\* matched_kwargs = {k for k in flat_names if k in kwargs}
MatchedKwargs(kwargs, flat_names) == Range(flat_names) \cap DOMAIN kwargs

\* unmatched_kwargs = {k: v for (k, v) in kwargs.items() if k not in matched}
UnmatchedKwargs(kwargs, matched) == Restrict(kwargs, DOMAIN kwargs \ matched)

\* if len(args) == 1 and not matched_kwargs
SinglePositional(args, matched) == Len(args) = 1 /\ matched = {}

\* Off by one in the test for several components.
MultipleVariablesOffByOne(dtype) == Len(dtype.items) > 2

\* if len(dtype) > 1
MultipleVariables(dtype) == Len(dtype.items) > 1

\* The unmatched keywords are not subtracted.
NumComponentsSpecifiedAllKeywords(args, kwargs, unmatched) ==
  Len(args) + Cardinality(DOMAIN kwargs)

\* num_components_specified = len(args) + len(kwargs) - len(unmatched_kwargs)
NumComponentsSpecified(args, kwargs, unmatched) ==
  Len(args) + Cardinality(DOMAIN kwargs) - Cardinality(DOMAIN unmatched)

\* The isinstance test for OrderedDict inverted.
IsUnorderedInverted(dtype) == dtype.tag = "odict"

\* isinstance(dtype, dict) and not isinstance(dtype, collections.OrderedDict)
IsUnordered(dtype) == dtype.tag = "dict"

\* kwargs[k] if k in kwargs else args[i]; args[i] raises IndexError when the
\* tuple is too short (Python index i is position i + 1 here).
IndexError == [tag |-> "IndexError", x |-> 0, keys |-> <<>>, items |-> <<>>]

\* The next not-yet-used positional argument instead of args[i].
AssembleItemNextUnused(args, kwargs, flat_names, i) ==
  LET pos == Cardinality({j \in 1..i : flat_names[j] \notin DOMAIN kwargs})
  IN IF flat_names[i] \in DOMAIN kwargs THEN kwargs[flat_names[i]]
     ELSE IF pos \in DOMAIN args THEN args[pos]
     ELSE IndexError

AssembleItem(args, kwargs, flat_names, i) ==
  IF flat_names[i] \in DOMAIN kwargs THEN kwargs[flat_names[i]]
  ELSE IF i \in DOMAIN args THEN args[i]
  ELSE IndexError

Ok(value, unmatched) == [status |-> "ok", value |-> value, unmatched |-> unmatched]

Raise(err) == [status |-> err, value |-> None, unmatched |-> EmptyKw]

ResolveAssemble(model, args, kwargs, flat_names, unmatched) ==
  LET flat == [i \in DOMAIN flat_names |-> AssembleItem(args, kwargs, flat_names, i)]
  IN IF \E i \in DOMAIN flat : flat[i] = IndexError
     THEN Raise("IndexError")
     ELSE Ok(ModelUnflatten(model, flat), unmatched)

\* The structural check reduced to a test that both are not None.
StructureMatchesAnything(first_component_dtype, arg) ==
  first_component_dtype # None /\ arg # None

\* tf.nest.assert_same_structure(first_component_dtype, args[0],
\* check_types=False) passes (neither ValueError nor TypeError).
StructureMatches(first_component_dtype, arg) ==
  SameStructure(first_component_dtype, arg)

ResolveSingle(model, args, dtype, unmatched) ==
  IF MultipleVariables(dtype)
  THEN Ok(args[1], unmatched)
  ELSE LET first_component_dtype == ModelFlatten(dtype)[1]
       IN IF StructureMatches(first_component_dtype, args[1])
          THEN Ok(ModelUnflatten(model, args), unmatched)
          ELSE Ok(args[1], unmatched)

ResolveValueFromArgs(model, args, kwargs0, dtype, flat_names) ==
  LET value == PopValue(kwargs0)
      kwargs == PopRest(kwargs0)
      matched == MatchedKwargs(kwargs, flat_names)
      unmatched == UnmatchedKwargs(kwargs, matched)
  IN IF RespectValue(value) THEN Ok(value, kwargs)
     ELSE IF SinglePositional(args, matched)
       THEN ResolveSingle(model, args, dtype, unmatched)
     ELSE IF NumComponentsSpecified(args, kwargs, unmatched) # Len(flat_names)
       THEN Raise("ValueError:count")
     ELSE IF Len(args) > 0 /\ IsUnordered(dtype)
       THEN Raise("ValueError:unordered")
     ELSE ResolveAssemble(model, args, kwargs, flat_names, unmatched)

(***************************************************************************)
(* Inputs of a resolver call.                                              *)
(***************************************************************************)
Leaves == {Leaf(v) : v \in 1..MaxLeaf}

RECURSIVE SeqsUpTo(_, _)
SeqsUpTo(S, n) ==
  IF n = 0 THEN {<<>>}
  ELSE LET shorter == SeqsUpTo(S, n - 1)
       IN shorter \cup {Append(s, e) : s \in {t \in shorter : Len(t) = n - 1}, e \in S}

\* Whole value structures of the model with leaf components.
ValueStructs(model) ==
  {ModelUnflatten(model, vs) : vs \in [DOMAIN model.names -> Leaves]}

\* Positional arguments: component values, or one structured argument.
ArgLists(model) ==
  SeqsUpTo(Leaves, MaxArgs)
  \cup {<<s>> : s \in {ListOf(<<Leaf(1)>>), ListOf(<<Leaf(1), Leaf(MaxLeaf)>>),
                      ModelUnflatten(model, [i \in DOMAIN model.names |-> Leaf(i)])}}

MkKwargs(cn, cv, cf) ==
  LET all == [k \in DOMAIN cn \cup {"value", "foo"} |->
                IF k = "value" THEN cv ELSE IF k = "foo" THEN cf ELSE cn[k]]
  IN Restrict(all, {k \in DOMAIN all : all[k] # Absent})

KwargSets(model) ==
  { MkKwargs(cn, cv, cf) :
      cn \in [Range(model.names) -> Leaves \cup {None, Absent}],
      cv \in {Absent, None} \cup ValueStructs(model),
      cf \in {Absent, Leaf(1)} }

NoResult == Raise("pending")

RCalls(model) ==
  { [args |-> a, kwargs |-> kw, done |-> FALSE, res |-> NoResult] :
      a \in ArgLists(model), kw \in KwargSets(model) }

IdleRCall == [args |-> <<>>, kwargs |-> EmptyKw, done |-> FALSE, res |-> NoResult]

(***************************************************************************)
(* The per-context cache _single_sample_distributions: a mapping from the  *)
(* graph id (EagerKey when executing eagerly) to a list of component       *)
(* distributions.  A list of distributions is identified by the ordinal of *)
(* the _flat_sample_distributions call that built it; pins are the         *)
(* components whose value was supplied, nones the positions holding None.  *)
(***************************************************************************)
EagerKey == -1

Contexts == {EagerKey} \cup (1..MaxGraphs)

NoDs == [id |-> 0, pins |-> {}, nones |-> {}]

\* all([d is not None for d in ds])
Complete(ds) == ds.nones = {}

\* _flat_sample_distributions(sample_shape, seed, value): one distribution
\* and one tensor per component; a component whose value is supplied keeps
\* it, every other component is sampled.  value is the flattened value,
\* NoFlatValue standing for value=None.
NoFlatValue == <<>>

FlatSampleDistributions(model, nb, sample_shape, value) ==
  LET given(i) == i \in DOMAIN value /\ value[i] # None
  IN [ds |-> [id |-> nb + 1,
              pins |-> {i \in DOMAIN model.names : given(i)},
              nones |-> {}],
      xs |-> [i \in DOMAIN model.names |-> IF given(i) THEN value[i] ELSE Sampled]]

\* graph_id = -1 if tf.executing_eagerly() else id(tf.constant(True).graph)
GraphId(ctx) == ctx

\* The candidate distributions are stored whenever they are offered.
GetSingleSampleDistributionsOverwrites(model, st, ctx, candidate_dists) ==
  IF candidate_dists # NoDs
  THEN [ds |-> candidate_dists,
        cache |-> [st.cache EXCEPT ![GraphId(ctx)] = candidate_dists],
        nb |-> st.nb]
  ELSE IF st.cache[GraphId(ctx)] = NoDs
    THEN [ds |-> FlatSampleDistributions(model, st.nb, <<>>, NoFlatValue).ds,
          cache |-> [st.cache EXCEPT ![GraphId(ctx)] =
                       FlatSampleDistributions(model, st.nb, <<>>, NoFlatValue).ds],
          nb |-> st.nb + 1]
    ELSE [ds |-> st.cache[GraphId(ctx)], cache |-> st.cache, nb |-> st.nb]

\* The entry of the current graph is looked up before the eager entry.
GetSingleSampleDistributionsGraphFirst(model, st, ctx, candidate_dists) ==
  IF st.cache[GraphId(ctx)] # NoDs /\ Complete(st.cache[GraphId(ctx)])
  THEN [ds |-> st.cache[GraphId(ctx)], cache |-> st.cache, nb |-> st.nb]
  ELSE IF candidate_dists # NoDs
    THEN [ds |-> candidate_dists,
          cache |-> [st.cache EXCEPT ![GraphId(ctx)] = candidate_dists],
          nb |-> st.nb]
    ELSE [ds |-> FlatSampleDistributions(model, st.nb, <<>>, NoFlatValue).ds,
          cache |-> [st.cache EXCEPT ![GraphId(ctx)] =
                       FlatSampleDistributions(model, st.nb, <<>>, NoFlatValue).ds],
          nb |-> st.nb + 1]

GetSingleSampleDistributions(model, st, ctx, candidate_dists) ==
  LET eager == st.cache[EagerKey]
      graph_id == GraphId(ctx)
      cur == st.cache[graph_id]
  IN IF eager # NoDs /\ Complete(eager)
     THEN [ds |-> eager, cache |-> st.cache, nb |-> st.nb]
     ELSE IF cur = NoDs \/ ~Complete(cur)
       THEN IF candidate_dists # NoDs
            THEN [ds |-> candidate_dists,
                  cache |-> [st.cache EXCEPT ![graph_id] = candidate_dists],
                  nb |-> st.nb]
            ELSE LET built == FlatSampleDistributions(model, st.nb, <<>>, NoFlatValue).ds
                 IN [ds |-> built,
                     cache |-> [st.cache EXCEPT ![graph_id] = built],
                     nb |-> st.nb + 1]
       ELSE [ds |-> cur, cache |-> st.cache, nb |-> st.nb]

(***************************************************************************)
(* Names of the components.  model.names[i] is the `name` parameter of the *)
(* i-th component distribution; every component is an instance of the      *)
(* class ComponentClass, whose __init__ has the default name DefaultName.   *)
(***************************************************************************)
ComponentClass == "Normal"

DefaultName == "Normal"

\* d.parameters.get('name', None) when the parameters hold no name.
NoName == "<None>"

\* d.__class__.__name__ in name, over the names of the model.
ContainsClassName(name) == name \in {ComponentClass, ComponentClass \o "_1"}

\* The forbidden names are let through.
IsForbiddenNever(name) == FALSE

\* if name in FORBIDDEN_COMPONENT_NAMES
IsForbidden(name) == name \in FORBIDDEN_COMPONENT_NAMES

\* if name and d.__class__.__name__ in name: name = None
WithoutClassName(name) == IF name # NoName /\ ContainsClassName(name) THEN NoName ELSE name

\* if name and default_name == name: name = None
WithoutDefaultName(name) == IF name # NoName /\ name = DefaultName THEN NoName ELSE name

\* The forbidden-name test on the name left, and the return value.
CheckedName(name) == [raised |-> IsForbidden(name), name |-> name]

\* get_explicit_name_for_component(d): the name the user gave to d, NoName
\* if d carries its default name; raised if the name is forbidden.
GetExplicitNameForComponent(param) ==
  CheckedName(WithoutDefaultName(WithoutClassName(param)))

\* '{}{}'.format(dummy_name, dummy_idx), dummy_idx counting from 0
DummyName(dummy_idx) == "var" \o ToString(dummy_idx)

\* No name counts as used.
IsDuplicatedNever(name, names_used) == FALSE

\* if name in names_used
IsDuplicated(name, names_used) == name \in names_used

\* The loop of _flat_resolve_names from component i on, names being the
\* names appended so far (names_used is the set of its elements).
RECURSIVE ResolveNamesFrom(_, _, _)
\* The duplicate test on the name of component i, then the rest of the loop.
UseName(nameParams, i, names, name) ==
  IF IsDuplicated(name, Range(names))
  THEN [status |-> "ValueError:duplicated_name", names |-> names]
  ELSE ResolveNamesFrom(nameParams, i + 1, Append(names, name))

\* One turn of the loop, e being the explicit name of component i.
ResolveName(nameParams, i, names, e) ==
  IF e.raised THEN [status |-> "ValueError:forbidden_name", names |-> names]
  ELSE UseName(nameParams, i, names,
               IF e.name = NoName THEN DummyName(i - 1) ELSE e.name)

ResolveNamesFrom(nameParams, i, names) ==
  IF i > Len(nameParams) THEN [status |-> "ok", names |-> names]
  ELSE ResolveName(nameParams, i, names, GetExplicitNameForComponent(nameParams[i]))

\* The outcome of _flat_resolve_names once the cache g is read and the
\* loop has ended with r.
ResolvedNames(g, r) ==
  [status |-> r.status, names |-> r.names, cache |-> g.cache, nb |-> g.nb]

\* _flat_resolve_names: one name per cached component distribution, or the
\* error raised on the way; the cache is read before the loop starts.
FlatResolveNames(model, st, ctx) ==
  ResolvedNames(GetSingleSampleDistributions(model, st, ctx, NoDs),
                ResolveNamesFrom(model.names, 1, <<>>))

\* The dtype property: the dtypes of the cached component distributions.
Dtype(model, st, ctx) ==
  LET g == GetSingleSampleDistributions(model, st, ctx, NoDs)
  IN [dtype |-> ModelDtype(model), cache |-> g.cache, nb |-> g.nb]

(***************************************************************************)
(* sample, sample_distributions, log_prob and prob.  Every operation maps  *)
(* the state st = [cache, nb] to an outcome [status, result, cache, nb];   *)
(* an exception keeps the cache entries written before it was raised.      *)
(***************************************************************************)
\* detail is what the error message lists (a set of keywords or names).
FailWith(err, detail, st) ==
  [status |-> err, detail |-> detail, result |-> None, cache |-> st.cache, nb |-> st.nb]

Fail(err, st) == FailWith(err, {}, st)

Done(result, st) ==
  [status |-> "ok", detail |-> {}, result |-> result, cache |-> st.cache, nb |-> st.nb]

\* The keywords are left as they were passed.
UpdateWithNamesSkipped(kwargs, names) == kwargs

\* kwargs.update({k: kwargs.get(k) for k in names})
UpdateWithNames(kwargs, names) ==
  [k \in DOMAIN kwargs \cup Range(names) |-> KwGet(kwargs, k, None)]

CallFlatSampleDistributions(model, st, ctx, sample_shape, value, kwargs) ==
  LET byKeywords == value = None /\ kwargs # EmptyKw
      n == FlatResolveNames(model, st, ctx)
      d == Dtype(model, n, ctx)
      r == ResolveValueFromArgs(model, <<>>, UpdateWithNames(kwargs, n.names),
                                d.dtype, n.names)
      st1 == IF byKeywords THEN [cache |-> d.cache, nb |-> d.nb] ELSE st
      value1 == IF byKeywords THEN r.value ELSE value
      flat == IF value1 # None THEN ModelFlatten(value1) ELSE NoFlatValue
      b == FlatSampleDistributions(model, st1.nb, sample_shape, flat)
  IN IF byKeywords /\ n.status # "ok" THEN Fail(n.status, n) @@ [ds |-> NoDs]
     ELSE IF byKeywords /\ r.status # "ok" THEN Fail(r.status, st1) @@ [ds |-> NoDs]
     ELSE IF byKeywords /\ r.unmatched # EmptyKw
       THEN FailWith("ValueError:unexpected_keywords", Range(n.names), st1)
              @@ [ds |-> NoDs]
     ELSE Done(ModelUnflatten(model, b.xs), [cache |-> st1.cache, nb |-> st1.nb + 1])
            @@ [ds |-> b.ds]

\* The distributions are offered whatever the sample shape and the value.
OfferToCacheAlways(model, c, ctx, sample_shape, value) ==
  Done(c.result, GetSingleSampleDistributions(model, c, ctx, c.ds))

\* if not sample_shape and value is None: offer ds to the cache.
OfferToCache(model, c, ctx, sample_shape, value) ==
  IF sample_shape = <<>> /\ value = None
  THEN Done(c.result, GetSingleSampleDistributions(model, c, ctx, c.ds))
  ELSE Done(c.result, c)

\* The test for a value inverted.
BothValueAndKeywordsInverted(value, kwargs) == value = None /\ kwargs # EmptyKw

\* if value is not None and kwargs
BothValueAndKeywords(value, kwargs) == value # None /\ kwargs # EmptyKw

\* sample -> _call_sample_n -> _sample_n
SampleN(model, st, ctx, sample_shape, value, kwargs) ==
  IF BothValueAndKeywords(value, kwargs)
  THEN FailWith("ValueError:value_and_keywords", DOMAIN kwargs, st)
  ELSE LET c == CallFlatSampleDistributions(model, st, ctx, sample_shape, value, kwargs)
       IN IF c.status # "ok" THEN FailWith(c.status, c.detail, c)
          ELSE OfferToCache(model, c, ctx, sample_shape, value)

SampleDistributions(model, st, ctx, sample_shape, value, kwargs) ==
  LET c == CallFlatSampleDistributions(model, st, ctx, sample_shape, value, kwargs)
  IN IF c.status # "ok" THEN FailWith(c.status, c.detail, c)
     ELSE OfferToCache(model, c, ctx, sample_shape, value)

\* any(x is None for x in tf.nest.flatten(value))
AnyPartNone(value) == \E i \in DOMAIN value.items : value.items[i] = None

\* _map_measure_over_dists: the value is pinned whole, one build.
MapMeasureOverDists(model, st, ctx, value) ==
  IF AnyPartNone(value) THEN Fail("ValueError:none_part", st)
  ELSE CallFlatSampleDistributions(model, st, ctx, <<>>, value, EmptyKw)

\* _call_log_prob / _call_prob: the value is cast to the dtype structure,
\* then the primitive _log_prob(self, value) is called with the remaining
\* keywords, of which it accepts none.
CallMeasure(model, st, ctx, value, unmatched) ==
  LET d == Dtype(model, st, ctx)
      extra == Restrict(unmatched, DOMAIN unmatched \ {"name"})
  IN IF ~SameStructure(d.dtype, value) THEN Fail("StructureError", d)
     ELSE IF extra # EmptyKw THEN Fail("TypeError:unexpected_keyword", d)
     ELSE LET c == MapMeasureOverDists(model, d, ctx, value)
          IN IF c.status # "ok" THEN Fail(c.status, c) ELSE Done(value, c)

\* kwargs['name'] = kwargs.get('name', method)
WithName(kwargs, method) ==
  [k \in DOMAIN kwargs \cup {"name"} |-> KwGet(kwargs, k, Str(method))]

\* log_prob(*args, **kwargs) and prob(*args, **kwargs)
Measure(model, st, ctx, method, args, kwargs) ==
  LET d == Dtype(model, st, ctx)
      n == FlatResolveNames(model, d, ctx)
      r == ResolveValueFromArgs(model, args, WithName(kwargs, method), d.dtype, n.names)
  IN IF n.status # "ok" THEN Fail(n.status, n)
     ELSE IF r.status # "ok" THEN Fail(r.status, n)
     ELSE CallMeasure(model, n, ctx, r.value, r.unmatched)

(***************************************************************************)
(* Arguments of the public calls.                                          *)
(***************************************************************************)
\* The models of the stateful specification: one or two scalar components.
FlatModels ==
  {m \in Models : Len(m.names) <= 2 /\ \A i \in DOMAIN m.ctypes : m.ctypes[i] = Float32}

SampleShapes == {<<>>, <<2>>}

Ones(model) == [i \in DOMAIN model.names |-> Leaf(1)]

FirstPinned(model) == [i \in DOMAIN model.names |-> IF i = 1 THEN Leaf(1) ELSE None]

SampleValues(model) ==
  {None, ModelUnflatten(model, Ones(model)), ModelUnflatten(model, FirstPinned(model))}

SampleKwargs(model) ==
  LET first == model.names[1]
      lst == model.names[Len(model.names)]
  IN {EmptyKw,
      [k \in {first} |-> Leaf(1)],
      [k \in {lst} |-> Leaf(1)],
      [k \in {"foo"} |-> Leaf(1)],
      [k \in {first, "foo"} |-> Leaf(1)]}

MeasureCalls(model) ==
  LET ones == Ones(model)
      full == ModelUnflatten(model, ones)
      names == Range(model.names)
  IN {<<<<full>>, EmptyKw>>,
      <<ones, EmptyKw>>,
      <<Prefix(ones, Len(ones) - 1), EmptyKw>>,
      <<ones, [k \in {"foo"} |-> Leaf(1)]>>,
      <<<<>>, [k \in names |-> Leaf(1)]>>,
      <<<<>>, [k \in names |-> None]>>,
      <<<<>>, [k \in names \cup {"name"} |-> IF k = "name" THEN Str("lp") ELSE Leaf(1)]>>,
      <<<<>>, [k \in {"value"} |-> full]>>,
      <<<<>>, [k \in {"value", "foo"} |-> IF k = "value" THEN full ELSE Leaf(1)]>>}

NoCall ==
  [op |-> "none", ctx |-> EagerKey, shape |-> <<>>, args |-> <<>>, value |-> None,
   kwargs |-> EmptyKw, status |-> "none", detail |-> {}, result |-> None, built |-> 0,
   cacheChanged |-> FALSE]

\* The record of a finished call: its arguments, its outcome, the number of
\* _flat_sample_distributions calls it made and whether it wrote the cache.
Finished(op, ctx, shape, args, value, kwargs, out) ==
  [op |-> op, ctx |-> ctx, shape |-> shape, args |-> args, value |-> value,
   kwargs |-> kwargs, status |-> out.status, detail |-> out.detail,
   result |-> out.result,
   built |-> out.nb - nbuilds, cacheChanged |-> out.cache # cache]

(***************************************************************************)
(* Specification of the resolver as a pure function: Init draws the model  *)
(* and the call's arguments, ResolveCall applies the resolver.             *)
(***************************************************************************)
InitResolver ==
  /\ jd \in Models
  /\ cache = [c \in Contexts |-> NoDs]
  /\ nbuilds = 0
  /\ last = NoCall
  /\ rcall \in RCalls(jd)
  /\ nres = Idle /\ parts = Idle /\ dist = Idle /\ params = Idle /\ win = Idle
  /\ LaterIdle

ResolveCall ==
  /\ ~rcall.done
  /\ rcall' = [rcall EXCEPT !.done = TRUE,
                 !.res = ResolveValueFromArgs(jd, rcall.args, rcall.kwargs,
                                              ModelDtype(jd), jd.names)]
  /\ UNCHANGED <<jd, cache, nbuilds, last, nres, parts, dist, params, win, LaterVars>>

NextResolver == ResolveCall

SpecResolver == InitResolver /\ [][NextResolver]_vars

(***************************************************************************)
(* Specification of a joint distribution object: Init is the object after  *)
(* construction (empty cache), every step is one public call issued from   *)
(* some execution context.                                                 *)
(***************************************************************************)
Init ==
  /\ jd \in FlatModels
  /\ cache = [c \in Contexts |-> NoDs]
  /\ nbuilds = 0
  /\ last = NoCall
  /\ rcall = IdleRCall
  /\ nres = Idle /\ parts = Idle /\ dist = Idle /\ params = Idle /\ win = Idle
  /\ LaterIdle

Commit(op, ctx, shape, args, value, kwargs, out) ==
  /\ out.nb <= MaxBuilds
  /\ cache' = out.cache
  /\ nbuilds' = out.nb
  /\ last' = Finished(op, ctx, shape, args, value, kwargs, out)
  /\ UNCHANGED <<jd, rcall, nres, parts, dist, params, win, LaterVars>>

State == [cache |-> cache, nb |-> nbuilds]

Sample ==
  \E ctx \in Contexts, shape \in SampleShapes, value \in SampleValues(jd),
     kwargs \in SampleKwargs(jd) :
    \E out \in {SampleN(jd, State, ctx, shape, value, kwargs)} :
      Commit("sample", ctx, shape, <<>>, value, kwargs, out)

SampleDists ==
  \E ctx \in Contexts, shape \in SampleShapes, value \in SampleValues(jd),
     kwargs \in SampleKwargs(jd) :
    \E out \in {SampleDistributions(jd, State, ctx, shape, value, kwargs)} :
      Commit("sample_distributions", ctx, shape, <<>>, value, kwargs, out)

LogProb ==
  \E ctx \in Contexts, call \in MeasureCalls(jd) :
    \E out \in {Measure(jd, State, ctx, "log_prob", call[1], call[2])} :
      Commit("log_prob", ctx, <<>>, call[1], None, call[2], out)

Prob ==
  \E ctx \in Contexts, call \in MeasureCalls(jd) :
    \E out \in {Measure(jd, State, ctx, "prob", call[1], call[2])} :
      Commit("prob", ctx, <<>>, call[1], None, call[2], out)

\* The dtype property; batch_shape, event_shape and the other properties of
\* the components read the cache the same way.
DtypeQuery ==
  \E ctx \in Contexts :
    \E d \in {Dtype(jd, State, ctx)} :
      Commit("dtype", ctx, <<>>, <<>>, None, EmptyKw, Done(d.dtype, d))

Next == Sample \/ SampleDists \/ LogProb \/ Prob \/ DtypeQuery

Spec == Init /\ [][Next]_vars

(***************************************************************************)
(* Specification of the names: a sequential model whose components carry   *)
(* any `name` parameters (default, repeated, forbidden or equal to a dummy *)
(* name) is constructed, then log_prob, prob, sample and                   *)
(* _flat_resolve_names are called on it.  Nothing in the base class looks  *)
(* at the names when the model is constructed.                             *)
(***************************************************************************)
MaxNamed == 3

NameParams == {"z", DefaultName, "var1", "value"}

NamedModels ==
  {[kind |-> "list", names |-> ns, ctypes |-> [i \in DOMAIN ns |-> Float32]] :
     ns \in UNION {[1..n -> IF n < MaxNamed THEN NameParams
                                             ELSE NameParams \ {"var1"}] :
                     n \in 2..MaxNamed}}

NamedSampleKwargs ==
  {EmptyKw, [k \in {"z"} |-> Leaf(1)], [k \in {"var1"} |-> Leaf(1)]}

NamedMeasureCalls(model) ==
  {<<Ones(model), EmptyKw>>,
   <<<<>>, [k \in {"value"} |-> ModelUnflatten(model, Ones(model))]>>}

NoNames == [op |-> "none", ctx |-> EagerKey, status |-> "none", names |-> <<>>]

InitNames ==
  /\ jd \in NamedModels
  /\ cache = [c \in Contexts |-> NoDs]
  /\ nbuilds = 0
  /\ last = NoCall
  /\ nres = NoNames
  /\ rcall = IdleRCall
  /\ parts = Idle /\ dist = Idle /\ params = Idle /\ win = Idle
  /\ LaterIdle

NamedSample ==
  \E ctx \in Contexts, value \in {None, ModelUnflatten(jd, Ones(jd))},
     kwargs \in NamedSampleKwargs :
    \E out \in {SampleN(jd, State, ctx, <<>>, value, kwargs)} :
      Commit("sample", ctx, <<>>, <<>>, value, kwargs, out)

NamedLogProb ==
  \E ctx \in Contexts, call \in NamedMeasureCalls(jd) :
    \E out \in {Measure(jd, State, ctx, "log_prob", call[1], call[2])} :
      Commit("log_prob", ctx, <<>>, call[1], None, call[2], out)

NamedProb ==
  \E ctx \in Contexts, call \in NamedMeasureCalls(jd) :
    \E out \in {Measure(jd, State, ctx, "prob", call[1], call[2])} :
      Commit("prob", ctx, <<>>, call[1], None, call[2], out)

\* A direct call of _flat_resolve_names().
ResolveNames ==
  \E ctx \in Contexts :
    \E n \in {FlatResolveNames(jd, State, ctx)} :
      /\ n.nb <= MaxBuilds
      /\ cache' = n.cache
      /\ nbuilds' = n.nb
      /\ nres' = [op |-> "_flat_resolve_names", ctx |-> ctx, status |-> n.status,
                  names |-> IF n.status = "ok" THEN n.names ELSE <<>>]
      /\ UNCHANGED <<jd, last, rcall, parts, dist, params, win, LaterVars>>

NextNames == NamedSample \/ NamedLogProb \/ NamedProb \/ ResolveNames

SpecNames == InitNames /\ [][NextNames]_vars

(***************************************************************************)
(* Tensors.  A tensor is a shape (the sequence of its dimensions), the      *)
(* number v that fills it and the functions applied to that number so far  *)
(* (fns = <<"log">> is the elementwise log of the tensor filled with v).   *)
(***************************************************************************)
Tensor(shape, v) == [shape |-> shape, v |-> v, fns |-> <<>>]

Apply(fn, t) == [t EXCEPT !.fns = Append(@, fn)]

\* The shape with n dimensions of size 1 put in front.
RECURSIVE PadLeft(_, _)
PadLeft(shape, n) == IF n <= 0 THEN shape ELSE PadLeft(<<1>> \o shape, n - 1)

Max(a, b) == IF a >= b THEN a ELSE b

\* Broadcasting of two shapes: aligned on the right, two dimensions agree
\* when they are equal or one of them is 1.
CanBroadcast(a, b) ==
  LET n == Max(Len(a), Len(b))
      pa == PadLeft(a, n - Len(a))
      pb == PadLeft(b, n - Len(b))
  IN \A i \in 1..n : pa[i] = pb[i] \/ pa[i] = 1 \/ pb[i] = 1

BroadcastShape(a, b) ==
  LET n == Max(Len(a), Len(b))
      pa == PadLeft(a, n - Len(a))
      pb == PadLeft(b, n - Len(b))
  IN [i \in 1..n |-> Max(pa[i], pb[i])]

\* The left operand does not count.
AddIgnoresLeft(x, y) == Tensor(BroadcastShape(x.shape, y.shape), y.v)

\* x + y of two tensors without applied functions.
Add(x, y) == Tensor(BroadcastShape(x.shape, y.shape), x.v + y.v)

(***************************************************************************)
(* log_prob, log_prob_parts and prob_parts of a joint distribution whose   *)
(* i-th component is located at the value of component i-1 (the first one  *)
(* at 0): the per-component results and the check of their shapes.         *)
(***************************************************************************)
MaxParts == 3

MaxDim == 3

\* The distribution of component i, built from the upstream values.
ComponentDistribution(value, i) ==
  [loc |-> IF i = 1 THEN Tensor(<<>>, 0) ELSE value[i - 1]]

\* getattr(d, attr)(x) for attr = 'log_prob': -(x - loc)^2 elementwise.
ComponentLogProb(d, x) ==
  Tensor(BroadcastShape(d.loc.shape, x.shape), 0 - (x.v - d.loc.v) * (x.v - d.loc.v))

\* getattr(d, attr)(x) for attr = 'prob'
ComponentProb(d, x) == Apply("exp", ComponentLogProb(d, x))

\* _map_measure_over_dists(attr, value), evaluated: one result per
\* component, or the error of a component whose value does not fit it.
MapMeasure(attr, value) ==
  LET d(i) == ComponentDistribution(value, i)
  IN IF \E i \in DOMAIN value : ~CanBroadcast(d(i).loc.shape, value[i].shape)
     THEN [status |-> "InvalidArgumentError", xs |-> <<>>]
     ELSE [status |-> "ok",
           xs |-> [i \in DOMAIN value |->
                     IF attr = "log_prob" THEN ComponentLogProb(d(i), value[i])
                                          ELSE ComponentProb(d(i), value[i])]]

\* np.all(a == b) on two shape vectors: == broadcasts the vectors, so a
\* vector of length 1 is compared with every entry of the other one and
\* against the empty vector nothing is compared; vectors that do not
\* broadcast compare unequal (or make == raise, in later numpy releases).
ShapesAllEqual(a, b) ==
  IF Len(a) = Len(b) THEN \A i \in DOMAIN a : a[i] = b[i]
  ELSE IF Len(a) = 1 THEN \A j \in DOMAIN b : b[j] = a[1]
  ELSE IF Len(b) = 1 THEN \A j \in DOMAIN a : a[j] = b[1]
  ELSE FALSE

\* maybe_check_wont_broadcast(flat_xs, validate_args); static tells whether
\* every shape is known statically (else the same comparison is made by
\* assertions on which the returned tensors depend).
MaybeCheckWontBroadcast(flat_xs, validate_args, static) ==
  IF ~validate_args THEN [status |-> "ok", xs |-> flat_xs]
  ELSE IF \A i \in 1..(Len(flat_xs) - 1) :
            ShapesAllEqual(flat_xs[i + 1].shape, flat_xs[i].shape)
    THEN [status |-> "ok", xs |-> flat_xs]
  ELSE [status |-> IF static THEN "ValueError:broadcast"
                             ELSE "InvalidArgumentError:broadcast",
        xs |-> <<>>]

\* sum(xs): ((0 + xs[1]) + xs[2]) + ...
RECURSIVE PySum(_, _)
PySum(xs, n) ==
  IF n = 0 THEN [status |-> "ok", x |-> Tensor(<<>>, 0)]
  ELSE LET rest == PySum(xs, n - 1)
       IN IF rest.status # "ok" THEN rest
          ELSE IF ~CanBroadcast(rest.x.shape, xs[n].shape)
            THEN [status |-> "InvalidArgumentError", x |-> Tensor(<<>>, 0)]
          ELSE [status |-> "ok", x |-> Add(rest.x, xs[n])]

PartsOutcome(status, result) == [status |-> status, result |-> result]

\* log_prob_parts(value) and prob_parts(value); the model is sequential,
\* so that _model_unflatten gives the list of the results.
MeasureParts(attr, p) ==
  LET m == MapMeasure(attr, p.value)
      c == MaybeCheckWontBroadcast(m.xs, p.validate_args, p.static)
  IN IF m.status # "ok" THEN PartsOutcome(m.status, <<>>)
     ELSE IF c.status # "ok" THEN PartsOutcome(c.status, <<>>)
     ELSE PartsOutcome("ok", c.xs)

\* _log_prob(value)
JointLogProb(p) ==
  LET m == MapMeasure("log_prob", p.value)
      c == MaybeCheckWontBroadcast(m.xs, p.validate_args, p.static)
      t == PySum(c.xs, Len(c.xs))
  IN IF m.status # "ok" THEN PartsOutcome(m.status, <<>>)
     ELSE IF c.status # "ok" THEN PartsOutcome(c.status, <<>>)
     ELSE IF t.status # "ok" THEN PartsOutcome(t.status, <<>>)
     ELSE PartsOutcome("ok", <<t.x>>)

Shapes == {<<>>, <<1>>, <<MaxDim>>, <<MaxDim - 1>>, <<MaxDim, MaxDim>>}

ValueParts == {Tensor(s, v) : s \in Shapes, v \in 0..1}

NotCalled == PartsOutcome("none", <<>>)

InitParts ==
  /\ parts \in [validate_args : BOOLEAN, static : BOOLEAN,
                 value : UNION {[1..n -> ValueParts] : n \in 2..MaxParts},
                 log_prob : {NotCalled}, log_prob_parts : {NotCalled},
                 prob_parts : {NotCalled}]
  /\ jd = Idle /\ cache = Idle /\ nbuilds = Idle /\ last = Idle /\ rcall = Idle
  /\ nres = Idle /\ dist = Idle /\ params = Idle /\ win = Idle
  /\ LaterIdle

PartsUnchanged == UNCHANGED <<jd, cache, nbuilds, last, rcall, nres, dist, params, win, LaterVars>>

LogProbOfParts ==
  /\ parts' = [parts EXCEPT !.log_prob = JointLogProb(parts)]
  /\ PartsUnchanged

LogProbParts ==
  /\ parts' = [parts EXCEPT !.log_prob_parts = MeasureParts("log_prob", parts)]
  /\ PartsUnchanged

ProbParts ==
  /\ parts' = [parts EXCEPT !.prob_parts = MeasureParts("prob", parts)]
  /\ PartsUnchanged

NextParts == LogProbOfParts \/ LogProbParts \/ ProbParts

SpecParts == InitParts /\ [][NextParts]_vars

(***************************************************************************)
(* The public wrappers of Distribution.  A subtype is the set of the       *)
(* primitives it implements; a primitive it does not implement is absent   *)
(* (hasattr is false) or is the one of the base class, which raises        *)
(* NotImplementedError.  The result of a primitive is a tensor written     *)
(* symbolically, base being the primitive and x its argument.              *)
(***************************************************************************)
Primitives ==
  {"_log_prob", "_prob", "_log_cdf", "_cdf", "_log_survival_function",
   "_survival_function", "_quantile"}

Prim(name, x) == [base |-> name, x |-> x, fns |-> <<>>]

NoTensor == Prim("none", <<>>)

Returns(t) == [status |-> "ok", msg |-> "", result |-> t]

Raises(err, msg) == [status |-> err, msg |-> msg, result |-> NoTensor]

NotImplemented(method) == Raises("NotImplementedError", method \o " is not implemented")

\* _call_log_prob
CallLogProb(d, x) ==
  IF "_log_prob" \in d.prims THEN Returns(Prim("_log_prob", x))
  ELSE IF "_prob" \in d.prims THEN Returns(Apply("log", Prim("_prob", x)))
  ELSE NotImplemented("log_prob")

\* The sibling primitive is not looked at.
CallProbOwnOnly(d, x) ==
  IF "_prob" \in d.prims THEN Returns(Prim("_prob", x)) ELSE NotImplemented("prob")

\* _call_prob
CallProb(d, x) ==
  IF "_prob" \in d.prims THEN Returns(Prim("_prob", x))
  ELSE IF "_log_prob" \in d.prims THEN Returns(Apply("exp", Prim("_log_prob", x)))
  ELSE NotImplemented("prob")

\* _call_log_cdf
CallLogCdf(d, x) ==
  IF "_log_cdf" \in d.prims THEN Returns(Prim("_log_cdf", x))
  ELSE IF "_cdf" \in d.prims THEN Returns(Apply("log", Prim("_cdf", x)))
  ELSE NotImplemented("log_cdf")

\* _call_cdf
CallCdf(d, x) ==
  IF "_cdf" \in d.prims THEN Returns(Prim("_cdf", x))
  ELSE IF "_log_cdf" \in d.prims THEN Returns(Apply("exp", Prim("_log_cdf", x)))
  ELSE NotImplemented("cdf")

\* cdf is tried before log_cdf.
CallLogSurvivalFunctionCdfFirst(d, x) ==
  IF "_log_survival_function" \in d.prims
  THEN Returns(Prim("_log_survival_function", x))
  ELSE IF "_cdf" \in d.prims
    THEN Returns(Apply("log1p", Apply("neg", Prim("_cdf", x))))
  ELSE IF "_log_cdf" \in d.prims
    THEN Returns(Apply("log1mexp", Prim("_log_cdf", x)))
  ELSE NotImplemented("log_survival_function")

\* _call_log_survival_function: log1mexp(log_cdf), else log1p(-cdf)
CallLogSurvivalFunction(d, x) ==
  IF "_log_survival_function" \in d.prims
  THEN Returns(Prim("_log_survival_function", x))
  ELSE IF "_log_cdf" \in d.prims
    THEN Returns(Apply("log1mexp", Prim("_log_cdf", x)))
  ELSE IF "_cdf" \in d.prims
    THEN Returns(Apply("log1p", Apply("neg", Prim("_cdf", x))))
  ELSE NotImplemented("log_survival_function")

\* _call_survival_function: -expm1(log_cdf), else 1. - self.cdf(value)
CallSurvivalFunction(d, x) ==
  IF "_survival_function" \in d.prims
  THEN Returns(Prim("_survival_function", x))
  ELSE IF "_log_cdf" \in d.prims
    THEN Returns(Apply("neg", Apply("expm1", Prim("_log_cdf", x))))
  ELSE IF "_cdf" \in d.prims
    THEN Returns(Apply("one_minus", CallCdf(d, x).result))
  ELSE NotImplemented("survival_function")

\* assert_less_equal(value, 1) and assert_greater_equal(value, 0) on the
\* entries of value: the messages of the assertions that fail, in the
\* order in which _call_quantile lists them.
FailingAssertions(value) ==
  (IF \A i \in DOMAIN value : value[i] <= 1 THEN <<>> ELSE <<"value must be <= 1">>)
    \o (IF \A i \in DOMAIN value : value[i] >= 0 THEN <<>>
                                                  ELSE <<"value must be >= 0">>)

\* The assertions are not made.
QuantileChecksUnchecked(d, value) == <<>>

\* if self.validate_args: the assertions the value depends on
QuantileChecks(d, value) == IF d.validate_args THEN FailingAssertions(value) ELSE <<>>

\* _call_quantile: the outcomes the call can have.  Executing eagerly, the
\* first failing assertion raises before self._quantile is called; in a
\* graph self._quantile is called on a tensor that depends on both
\* assertions, and either failing assertion may be the one reported.
CallQuantile(d, value) ==
  LET failing == QuantileChecks(d, value)
      prim == IF "_quantile" \in d.prims THEN Returns(Prim("_quantile", value))
                                         ELSE NotImplemented("quantile")
  IN IF failing = <<>> THEN {prim}
     ELSE IF d.mode = "eager" THEN {Raises("InvalidArgumentError", failing[1])}
     ELSE IF prim.status # "ok" THEN {prim}
     ELSE {Raises("InvalidArgumentError", failing[i]) : i \in DOMAIN failing}

(***************************************************************************)
(* Specification of the wrappers: a subtype with any set of primitives is  *)
(* constructed, then its public methods are called.                        *)
(***************************************************************************)
MaxQuantileLen == 2

\* Arguments of the measures, and of quantile (2 and -1 stand for a
\* probability above 1 and one below 0).
MeasureArgs == {<<0>>, <<1>>}

QuantileArgs == UNION {[1..n -> -1..2] : n \in 1..MaxQuantileLen}

NoDistCall == [op |-> "none", x |-> <<>>, out |-> Raises("none", "")]

InitDist ==
  /\ dist \in [prims : SUBSET Primitives, validate_args : BOOLEAN,
                mode : {"eager", "graph"}, call : {NoDistCall}]
  /\ jd = Idle /\ cache = Idle /\ nbuilds = Idle /\ last = Idle /\ rcall = Idle
  /\ nres = Idle /\ parts = Idle /\ params = Idle /\ win = Idle
  /\ LaterIdle

DistCalled(op, x, out) ==
  /\ dist' = [dist EXCEPT !.call = [op |-> op, x |-> x, out |-> out]]
  /\ UNCHANGED <<jd, cache, nbuilds, last, rcall, nres, parts, params, win, LaterVars>>

DistLogProb == \E x \in MeasureArgs : DistCalled("log_prob", x, CallLogProb(dist, x))

DistProb == \E x \in MeasureArgs : DistCalled("prob", x, CallProb(dist, x))

DistLogCdf == \E x \in MeasureArgs : DistCalled("log_cdf", x, CallLogCdf(dist, x))

DistCdf == \E x \in MeasureArgs : DistCalled("cdf", x, CallCdf(dist, x))

DistLogSurvivalFunction ==
  \E x \in MeasureArgs :
    DistCalled("log_survival_function", x, CallLogSurvivalFunction(dist, x))

DistSurvivalFunction ==
  \E x \in MeasureArgs :
    DistCalled("survival_function", x, CallSurvivalFunction(dist, x))

DistQuantile ==
  \E x \in QuantileArgs : \E out \in CallQuantile(dist, x) :
    DistCalled("quantile", x, out)

NextDist ==
  \/ DistLogProb \/ DistProb \/ DistLogCdf \/ DistCdf
  \/ DistLogSurvivalFunction \/ DistSurvivalFunction \/ DistQuantile

SpecDist == InitDist /\ [][NextDist]_vars

(***************************************************************************)
(* The parameters of a Distribution.  Objects live in a heap, params.objs; *)
(* a value is a plain value V(x) or the reference Ref(i) to object i.  A   *)
(* subtype either hands dict(locals()) to Distribution.__init__ or hands   *)
(* no parameters, and it supports batch slicing or does not.               *)
(***************************************************************************)
MaxObjects == 2

V(x) == [ref |-> 0, x |-> x]

Ref(i) == [ref |-> i, x |-> 0]

\* dummy_self = tuple()
DummySelf == Ref(-1)

\* The arguments of the subtype's __init__ (loc, name='Normal').
ArgKeys == {"loc", "name"}

EmptyDict == [k \in {} |-> V(0)]

\* dict(a, **b)
DictUpdate(a, b) ==
  [k \in DOMAIN a \cup DOMAIN b |-> IF k \in DOMAIN b THEN b[k] ELSE a[k]]

\* _remove_dict_keys_with_value(dict_, val)
RemoveDictKeysWithValue(dict_, val) ==
  Restrict(dict_, {k \in DOMAIN dict_ : dict_[k] # val})

\* k.startswith('__'), over the keys of the model.
StartsWithDunder(k) == k \in {"__class__"}

\* inspect.getcallargs(default_init, self_, **kwargs): the defaults filled in
GetCallArgs(self_, kwargs) ==
  DictUpdate([k \in {"self", "name"} |-> IF k = "self" THEN self_ ELSE V(0)], kwargs)

\* wrapped_init(self_, **kwargs) on the new object number me: the subtype's
\* __init__ and Distribution.__init__, then the treatment of _parameters.
WrappedInit(cls, me, kwargs) ==
  IF ~(DOMAIN kwargs \subseteq ArgKeys) \/ "loc" \notin DOMAIN kwargs
  THEN [status |-> "TypeError", obj |-> Idle]
  ELSE LET locals == DictUpdate(GetCallArgs(Ref(me), kwargs),
                                [k \in {"__class__"} |-> V(0)])
       IN [status |-> "ok",
           obj |-> IF cls.locals
                   THEN [cls |-> cls, callable |-> FALSE, sanitized |-> FALSE,
                         parameters |-> RemoveDictKeysWithValue(locals, Ref(me))]
                   ELSE [cls |-> cls, callable |-> TRUE, sanitized |-> FALSE,
                         parameters |-> GetCallArgs(DummySelf, kwargs)]]

\* The parameters property on object number me: the object after the read
\* and the dictionary that is returned.
Parameters(obj, me) ==
  IF ~obj.sanitized
  THEN LET p == IF obj.callable
                THEN RemoveDictKeysWithValue(obj.parameters, DummySelf)
                ELSE obj.parameters
           q == Restrict(p, {k \in DOMAIN p : ~StartsWithDunder(k) /\ p[k] # Ref(me)})
       IN [obj |-> [obj EXCEPT !.callable = FALSE, !.sanitized = TRUE,
                               !.parameters = q],
           dict |-> q]
  ELSE [obj |-> obj, dict |-> obj.parameters]

\* The overrides are dropped.
CopyParametersIgnoresOverrides(self_parameters, overrides) == self_parameters

\* parameters = dict(self.parameters, **override_parameters_kwargs)
CopyParameters(self_parameters, overrides) == DictUpdate(self_parameters, overrides)

\* slicing.batch_slice(self, ..., overrides, Ellipsis): a new instance of
\* the same type, constructed from dict(self.parameters, **overrides).
BatchSlice(obj, me, new, overrides) ==
  LET r == Parameters(obj, me)
      c == WrappedInit(obj.cls, new, CopyParameters(r.dict, overrides))
  IN [status |-> c.status, self |-> r.obj, d |-> c.obj]

\* copy with the given overrides, of object number me into number new
Copy(obj, me, new, overrides) ==
  IF obj.cls.sliceable THEN BatchSlice(obj, me, new, overrides)
  ELSE LET r == Parameters(obj, me)
           parameters == CopyParameters(r.dict, overrides)
           c == WrappedInit(obj.cls, new, parameters)
       IN [status |-> c.status, self |-> r.obj,
           d |-> IF c.status # "ok" THEN c.obj
                 ELSE [c.obj EXCEPT !.callable = FALSE, !.sanitized = TRUE,
                                    !.parameters = parameters]]

(***************************************************************************)
(* Specification of the parameters: objects are constructed and copied,    *)
(* their parameters are read, and the caller changes the dictionaries it   *)
(* was given.  held[i] is the dictionary the last read of object i gave to *)
(* the caller, first[i] the one its first read returned.                   *)
(***************************************************************************)
Classes == [locals : BOOLEAN, sliceable : BOOLEAN]

ConstructKwargs ==
  {[k \in {"loc"} |-> V(1)], [k \in {"loc", "name"} |-> V(1)]}

Overrides(i) ==
  {EmptyDict, [k \in {"loc"} |-> V(2)], [k \in {"loc"} |-> Ref(i)],
   [k \in {"name"} |-> V(2)], [k \in {"foo"} |-> V(2)]}

\* What the caller writes into a dictionary it holds of object i.
Mutations(i) == {[k \in {"loc"} |-> V(3)], [k \in {"me"} |-> Ref(i)]}

MaxReads == 2

NoDict == [some |-> FALSE, alias |-> FALSE, dict |-> EmptyDict]

\* What has happened to an object so far: the number of reads of its
\* parameters (counted up to MaxReads) and whether the caller has changed
\* a dictionary that a read returned.
NoHistory == [nreads |-> 0, mutated |-> FALSE]

OneMoreRead(h) == [h EXCEPT !.nreads = IF @ < MaxReads THEN @ + 1 ELSE @]

\* The caller is handed the dictionary of the object itself.
ReturnedDictAliased(dict) == [some |-> TRUE, alias |-> TRUE, dict |-> dict]

\* return dict(self._parameters)
ReturnedDict(dict) == [some |-> TRUE, alias |-> FALSE, dict |-> dict]

NoParamsCall ==
  [op |-> "none", obj |-> 0, new |-> 0, status |-> "none", overrides |-> EmptyDict,
   before |-> EmptyDict, result |-> EmptyDict]

InitParams ==
  /\ params = [objs |-> <<>>, held |-> <<>>, first |-> <<>>, history |-> <<>>,
               call |-> NoParamsCall]
  /\ jd = Idle /\ cache = Idle /\ nbuilds = Idle /\ last = Idle /\ rcall = Idle
  /\ nres = Idle /\ parts = Idle /\ dist = Idle /\ win = Idle
  /\ LaterIdle

ParamsUnchanged == UNCHANGED <<jd, cache, nbuilds, last, rcall, nres, parts, dist, win, LaterVars>>

\* The first dictionary read of object i, now that dict has been read.
FirstRead(i, dict) ==
  IF params.first[i].some THEN params.first[i] ELSE ReturnedDict(dict)

Construct ==
  /\ params.objs = <<>>
  /\ \E cls \in Classes, kwargs \in ConstructKwargs :
       \E c \in {WrappedInit(cls, 1, kwargs)} :
         /\ c.status = "ok"
         /\ params' = [objs |-> <<c.obj>>, held |-> <<NoDict>>, first |-> <<NoDict>>,
                       history |-> <<NoHistory>>,
                       call |-> [NoParamsCall EXCEPT !.op = "__init__", !.new = 1,
                                                     !.status = "ok"]]
  /\ ParamsUnchanged

ReadParameters ==
  /\ \E i \in DOMAIN params.objs :
       \E r \in {Parameters(params.objs[i], i)} :
         params' = [objs |-> [params.objs EXCEPT ![i] = r.obj],
                    held |-> [params.held EXCEPT ![i] = ReturnedDict(r.dict)],
                    first |-> [params.first EXCEPT ![i] = FirstRead(i, r.dict)],
                    history |-> [params.history EXCEPT ![i] = OneMoreRead(@)],
                    call |-> [NoParamsCall EXCEPT !.op = "parameters", !.obj = i,
                                                  !.status = "ok", !.result = r.dict]]
  /\ ParamsUnchanged

\* The caller updates a dictionary it holds; the object changes with it
\* only if the dictionary is the object's own.
MutateReturned ==
  /\ \E i \in DOMAIN params.objs : \E m \in Mutations(i) :
       /\ params.held[i].some
       /\ DictUpdate(params.held[i].dict, m) # params.held[i].dict
       /\ params' = [params EXCEPT
            !.held[i].dict = DictUpdate(@, m),
            !.objs[i].parameters = IF params.held[i].alias THEN DictUpdate(@, m) ELSE @,
            !.history[i].mutated = TRUE,
            !.call = [NoParamsCall EXCEPT !.op = "mutate", !.obj = i, !.status = "ok"]]
  /\ ParamsUnchanged

CopyObject ==
  /\ Len(params.objs) \in 1..(MaxObjects - 1)
  /\ \E i \in DOMAIN params.objs : \E overrides \in Overrides(i) :
       LET new == Len(params.objs) + 1
           before == Parameters(params.objs[i], i).dict
           c == Copy(params.objs[i], i, new, overrides)
           objs1 == [params.objs EXCEPT ![i] = c.self]
           call == [NoParamsCall EXCEPT !.op = "copy", !.obj = i, !.status = c.status,
                                        !.overrides = overrides, !.before = before]
       IN IF c.status = "ok"
          THEN params' = [objs |-> Append(objs1, c.d),
                          held |-> Append(params.held, NoDict),
                          first |-> Append([params.first EXCEPT ![i] = FirstRead(i, before)],
                                           NoDict),
                          history |-> Append([params.history EXCEPT ![i] = OneMoreRead(@)],
                                             NoHistory),
                          call |-> [call EXCEPT !.new = new]]
          ELSE params' = [params EXCEPT !.objs = objs1, !.call = call,
                                        !.first[i] = FirstRead(i, before),
                                        !.history[i] = OneMoreRead(@)]
  /\ ParamsUnchanged

NextParams == Construct \/ ReadParameters \/ MutateReturned \/ CopyObject

SpecParams == InitParams /\ [][NextParams]_vars

(***************************************************************************)
(* The window sizes of windowed adaptation.  The slow window is a 21st of  *)
(* the adaptation draws, rounded down, the first window three slow         *)
(* windows, and the last window takes the draws that remain after the      *)
(* first window and the slow windows of 1, 2, 4 and 8 times the slow size. *)
(***************************************************************************)
MaxDraws == 600

TestedDraws == {0, 1, 525, 524, 100, 10000}

\* The first window is two slow windows instead of three.
GetWindowSizesShortFirst(num_draws) ==
  LET slow_window == num_draws \div 21
      first_window == 2 * slow_window
      last_window == num_draws - 15 * slow_window - first_window
  IN <<first_window, slow_window, last_window>>

\* _get_window_sizes(num_draws)
GetWindowSizes(num_draws) ==
  LET slow_window == num_draws \div 21
      first_window == 3 * slow_window
      last_window == num_draws - 15 * slow_window - first_window
  IN <<first_window, slow_window, last_window>>

\* The slow window of 8 times the size is left out.
WindowsTotalThreeSlowWindows(first_window, slow_window, last_window) ==
  first_window + slow_window + 2 * slow_window + 4 * slow_window + last_window

\* The total that test_get_window_sizes compares with num_draws.
WindowsTotal(first_window, slow_window, last_window) ==
  first_window + slow_window + 2 * slow_window + 4 * slow_window
    + 8 * slow_window + last_window

InitWindows ==
  /\ win \in [num_draws : (0..MaxDraws) \cup TestedDraws, done : {FALSE},
               sizes : {<<0, 0, 0>>}, total : {0}]
  /\ jd = Idle /\ cache = Idle /\ nbuilds = Idle /\ last = Idle /\ rcall = Idle
  /\ nres = Idle /\ parts = Idle /\ dist = Idle /\ params = Idle
  /\ LaterIdle

\* test_get_window_sizes(num_draws) up to its assertion.
TestGetWindowSizes ==
  /\ ~win.done
  /\ \E sizes \in {GetWindowSizes(win.num_draws)} :
       win' = [win EXCEPT !.done = TRUE, !.sizes = sizes,
                          !.total = WindowsTotal(sizes[1], sizes[2], sizes[3])]
  /\ UNCHANGED <<jd, cache, nbuilds, last, rcall, nres, parts, dist, params, LaterVars>>

NextWindows == TestGetWindowSizes

SpecWindows == InitWindows /\ [][NextWindows]_vars

(***************************************************************************)
(* Control dependencies of a Distribution.  A subclass is given by the     *)
(* assertions its _parameter_control_dependencies makes at construction    *)
(* (is_init=True) and in later calls (is_init=False) and by those of its   *)
(* _sample_control_dependencies; the base class makes none.  An assertion  *)
(* made while executing eagerly evaluates to None.  ctl holds the          *)
(* instance: its class, _initial_parameter_control_dependencies, the       *)
(* is_init arguments _parameter_control_dependencies was called with so    *)
(* far, and the last public call.                                          *)
(***************************************************************************)
MaxScopes == 2

Op(name, inputs) == [op |-> name, inputs |-> inputs]

NoneOp == Op("None", <<>>)

Assertion(name) == Op(name, <<>>)

\* tf.group(*inputs)
Group(inputs) == Op("group", inputs)

\* The ops a list of assertions evaluates to.
Evaluate(assertions, eager) ==
  [i \in DOMAIN assertions |-> IF eager THEN NoneOp ELSE assertions[i]]

\* _parameter_control_dependencies(is_init), () in the base class.
ParameterControlDependencies(cls, is_init, eager) ==
  Evaluate(IF is_init THEN cls.init ELSE cls.later, eager)

\* _sample_control_dependencies(value, **kwargs), () in the base class.
SampleControlDependencies(cls, value, eager) == Evaluate(cls.sample, eager)

\* The None entries are kept.
DropNoneKeepsAll(deps) == deps

\* tuple(d for d in deps if d is not None)
DropNone(deps) == SelectSeq(deps, LAMBDA d : d # NoneOp)

\* The grouping at the end of __init__.
GroupIfAny(deps) == IF deps # <<>> THEN <<Group(deps)>> ELSE deps

\* __init__: self._initial_parameter_control_dependencies
InitialParameterControlDependencies(cls, eager) ==
  GroupIfAny(DropNone(ParameterControlDependencies(cls, TRUE, eager)))

UNSET_VALUE == Op("UNSET_VALUE", <<>>)

\* What entering the scope leaves: the dependencies of the ops created in
\* it, and the is_init arguments of the calls it made.
Scope(deps, pcd) ==
  IF deps = <<>> THEN [scope |-> "name_scope", deps |-> deps, pcd |-> pcd]
  ELSE [scope |-> "control_dependencies", deps |-> DropNone(deps), pcd |-> pcd]

\* The assertions of construction are computed again on every call.
NameAndControlScopeRecomputes(self, value, eager) ==
  Scope(DropNone(ParameterControlDependencies(self.cls, TRUE, eager))
          \o ParameterControlDependencies(self.cls, FALSE, eager)
          \o (IF value # UNSET_VALUE
              THEN SampleControlDependencies(self.cls, value, eager) ELSE <<>>),
        <<TRUE, FALSE>>)

\* _name_and_control_scope(name, value, kwargs)
NameAndControlScope(self, value, eager) ==
  Scope(self.initial
          \o ParameterControlDependencies(self.cls, FALSE, eager)
          \o (IF value # UNSET_VALUE
              THEN SampleControlDependencies(self.cls, value, eager) ELSE <<>>),
        <<FALSE>>)

\* The assertions a subclass makes.
InitAssertions ==
  {<<>>, <<Assertion("assert_positive")>>, <<NoneOp>>,
   <<Assertion("assert_positive"), NoneOp>>,
   <<NoneOp, Assertion("assert_finite")>>,
   <<Assertion("assert_positive"), Assertion("assert_finite")>>}

LaterAssertions == {<<>>, <<Assertion("assert_positive_ref")>>, <<NoneOp>>}

SampleAssertions == {<<>>, <<Assertion("assert_in_support")>>}

Subclasses == [init : InitAssertions, later : LaterAssertions, sample : SampleAssertions]

ValueOps == {"log_prob", "prob", "log_cdf", "cdf"}

NoScope == [op |-> "none", eager |-> FALSE, scope |-> "none", deps |-> <<>>]

InitControl ==
  /\ ctl \in [cls : Subclasses, constructed : {FALSE}, initial : {<<>>},
               pcd : {<<>>}, scopes : {0}, call : {NoScope}]
  /\ jd = Idle /\ cache = Idle /\ nbuilds = Idle /\ last = Idle /\ rcall = Idle
  /\ nres = Idle /\ parts = Idle /\ dist = Idle /\ params = Idle /\ win = Idle
  /\ walk = Idle /\ shp = Idle

ControlUnchanged ==
  UNCHANGED <<jd, cache, nbuilds, last, rcall, nres, parts, dist, params, win, walk, shp>>

\* Distribution.__init__, in eager or in graph mode.
ConstructDistribution ==
  /\ ~ctl.constructed
  /\ \E eager \in BOOLEAN :
       ctl' = [ctl EXCEPT !.constructed = TRUE,
                 !.initial = InitialParameterControlDependencies(ctl.cls, eager),
                 !.pcd = <<TRUE>>]
  /\ ControlUnchanged

\* The scope of a public call, entered.
Entered(op, eager, s) ==
  /\ ctl' = [ctl EXCEPT !.scopes = @ + 1, !.pcd = @ \o s.pcd,
               !.call = [op |-> op, eager |-> eager, scope |-> s.scope, deps |-> s.deps]]
  /\ ControlUnchanged

\* log_prob, prob, log_cdf, cdf: the scope is entered with the value.
CallWithValue ==
  /\ ctl.constructed /\ ctl.scopes < MaxScopes
  /\ \E op \in ValueOps, eager \in BOOLEAN :
       Entered(op, eager, NameAndControlScope(ctl, Op("value", <<>>), eager))

\* sample: the scope is entered without value.
CallSample ==
  /\ ctl.constructed /\ ctl.scopes < MaxScopes
  /\ \E eager \in BOOLEAN :
       Entered("sample", eager, NameAndControlScope(ctl, UNSET_VALUE, eager))

NextControl == ConstructDistribution \/ CallWithValue \/ CallSample

SpecControl == InitControl /\ [][NextControl]_vars

(***************************************************************************)
(* The conditioning walk of _DefaultJointBijector.  The model coroutine    *)
(* yields its components one by one, each conditioned on the value sent    *)
(* to obtain it (its parent's value); the first component may be wrapped   *)
(* in Root.  A component has no default bijector, a fixed one, or one that *)
(* depends on its parent's value.  Tensors are small integers; the value   *)
(* sent to the generator is <<>> for None and <<v>> for the tensor v.      *)
(***************************************************************************)
MaxWalk == 3

MaxTensor == 2

Tensors == 1..MaxTensor

NoCond == <<>>

Identity == [kind |-> "Identity", by |-> 0]

Scale == [kind |-> "Scale", by |-> 2]

Shift(by) == [kind |-> "Shift", by |-> by]

NoBijector == [kind |-> "None", by |-> 0]

\* bij.forward(x)
Forward(bij, x) ==
  IF bij.kind = "Scale" THEN bij.by * x
  ELSE IF bij.kind = "Shift" THEN x + bij.by
  ELSE x

\* gen.send(cond) on the generator that has yielded k components so far:
\* component k + 1 of the model, conditioned on cond.
GenSend(model, k, cond) ==
  LET yielded == [index |-> k + 1, bijector |-> model[k + 1].bijector, given |-> cond]
  IN IF model[k + 1].root
     THEN [name |-> "Root", distribution |-> yielded]
     ELSE [name |-> "Distribution", distribution |-> yielded]

\* d.distribution if type(d).__name__ == 'Root' else d
Unwrap(d) == d.distribution

\* bijector_fn = lambda d: d.experimental_default_event_space_bijector()
BijectorFn(d) ==
  IF d.bijector = "none" THEN NoBijector
  ELSE IF d.bijector = "scale" THEN Scale
  ELSE Shift(IF d.given = NoCond THEN 0 ELSE d.given[1])

\* if bij is None: bij = identity_bijector.Identity()
OrIdentity(bij) == IF bij = NoBijector THEN Identity ELSE bij

\* The sample itself is sent, whatever the direction.
NextCondNeverTransforms(rv, bij, constrained) == <<rv>>

\* cond = rv if constrained else bij.forward(rv)
NextCond(rv, bij, constrained) == IF constrained THEN <<rv>> ELSE <<Forward(bij, rv)>>

\* The loop of _conditioned_bijectors from sample i on: w holds the
\* bijectors appended and the values sent to the generator so far, cond the
\* value to send next.
RECURSIVE WalkFrom(_, _, _, _, _, _)
Step(model, samples, constrained, i, w, cond, bij) ==
  WalkFrom(model, samples, constrained, i + 1,
           [bijectors |-> Append(w.bijectors, bij), sent |-> Append(w.sent, cond)],
           NextCond(samples[i], bij, constrained))

WalkFrom(model, samples, constrained, i, w, cond) ==
  IF i > Len(samples) THEN w
  ELSE Step(model, samples, constrained, i, w, cond,
            OrIdentity(BijectorFn(Unwrap(GenSend(model, i - 1, cond)))))

NoSamples == <<>>

\* _conditioned_bijectors(samples, constrained): the bijectors, and the
\* values sent to the generator of the model.
ConditionedBijectors(self, samples, constrained) ==
  IF samples = NoSamples THEN [bijectors |-> self.bijectors, sent |-> <<>>]
  ELSE WalkFrom(self.model, samples, constrained, 1,
                [bijectors |-> <<>>, sent |-> <<>>], NoCond)

\* tuple(step_fn(bij, value) for bij, value in zip(bijectors, values))
ZipSteps(bijectors, values) ==
  LET n == IF Len(bijectors) < Len(values) THEN Len(bijectors) ELSE Len(values)
  IN [i \in 1..n |-> [bij |-> bijectors[i], value |-> values[i]]]

\* __init__: bijectors = tuple(bijector_fn(d) for d in the distributions of
\* a single sample of the model), protos being the values of that sample.
DefaultBijectors(model, protos) ==
  [i \in DOMAIN model |->
     BijectorFn([index |-> i, bijector |-> model[i].bijector,
                 given |-> IF i = 1 THEN NoCond ELSE <<protos[i - 1]>>])]

WalkModels ==
  UNION { [1..n -> [root : {FALSE}, bijector : {"none", "scale", "shift"}]] : n \in 1..MaxWalk }
  \cup UNION { {[m EXCEPT ![1].root = TRUE] :
                  m \in [1..n -> [root : {FALSE}, bijector : {"none", "shift"}]]} :
               n \in 1..MaxWalk }

SamplesOf(model) == UNION { [1..n -> Tensors] : n \in 1..Len(model) }

NoWalk == [op |-> "none", conditioning |-> NoSamples, bijectors |-> <<>>, sent |-> <<>>,
           result |-> <<>>]

InitWalk ==
  /\ \E model \in WalkModels :
       walk \in [model : {model},
                 bijectors : {DefaultBijectors(model, [i \in DOMAIN model |-> t]) : t \in Tensors},
                 values : [DOMAIN model -> Tensors],
                 call : {NoWalk}]
  /\ jd = Idle /\ cache = Idle /\ nbuilds = Idle /\ last = Idle /\ rcall = Idle
  /\ nres = Idle /\ parts = Idle /\ dist = Idle /\ params = Idle /\ win = Idle
  /\ ctl = Idle /\ shp = Idle

WalkUnchanged ==
  UNCHANGED <<jd, cache, nbuilds, last, rcall, nres, parts, dist, params, win, ctl, shp>>

Walked(op, conditioning, values, c) ==
  /\ walk' = [walk EXCEPT !.call =
                [op |-> op, conditioning |-> conditioning, bijectors |-> c.bijectors,
                 sent |-> c.sent, result |-> ZipSteps(c.bijectors, values)]]
  /\ WalkUnchanged

\* _walk_forward(step_fn, values, _jd_conditioning)
WalkForward ==
  /\ walk.call.op = "none"
  /\ \E conditioning \in {NoSamples} \cup SamplesOf(walk.model) :
       Walked("_walk_forward", conditioning, walk.values,
              ConditionedBijectors(walk, conditioning, FALSE))

\* _walk_inverse(step_fn, values, _jd_conditioning)
WalkInverse ==
  /\ walk.call.op = "none"
  /\ \E conditioning \in {NoSamples} \cup SamplesOf(walk.model) :
       Walked("_walk_inverse", conditioning, walk.values,
              ConditionedBijectors(walk, conditioning, TRUE))

NextWalk == WalkForward \/ WalkInverse

SpecWalk == InitWalk /\ [][NextWalk]_vars

(***************************************************************************)
(* Static shapes of a sample.  A static shape is of unknown rank, or a     *)
(* list of dimensions each of which is known or not; an optional integer   *)
(* (a rank that may be None, a dimension that may be None) is <<>> for     *)
(* None and <<k>> for k.                                                   *)
(***************************************************************************)
MaxRank == 2

NoInt == <<>>

UnknownShape == [known |-> FALSE, dims |-> <<>>]

KnownShape(dims) == [known |-> TRUE, dims |-> dims]

\* tensorshape_util.rank(shape)
RankOf(shape) == IF shape.known THEN <<Len(shape.dims)>> ELSE NoInt

\* [None] * k, the empty list when k is negative
Nones(k) == [i \in 1..k |-> NoInt]

\* a.concatenate(b)
Concatenate(a, b) ==
  IF a.known /\ b.known THEN KnownShape(a.dims \o b.dims) ELSE UnknownShape

\* Two static shapes can describe the same tensor.
Compatible(a, b) ==
  \/ ~a.known \/ ~b.known
  \/ /\ Len(a.dims) = Len(b.dims)
     /\ \A i \in DOMAIN a.dims :
          a.dims[i] = NoInt \/ b.dims[i] = NoInt \/ a.dims[i] = b.dims[i]

\* a.merge_with(b), for compatible shapes
MergeWith(a, b) ==
  IF ~a.known THEN b
  ELSE IF ~b.known THEN a
  ELSE KnownShape([i \in DOMAIN a.dims |-> IF a.dims[i] = NoInt THEN b.dims[i] ELSE a.dims[i]])

\* tensorshape_util.set_shape(x, shape) inside the function whose local
\* variables are f: x.shape is merged with shape, ValueError if they are
\* not compatible.
SetShape(f, shape) ==
  IF Compatible(f.x, shape) THEN [f EXCEPT !.x = MergeWith(f.x, shape)]
  ELSE [f EXCEPT !.status = "ValueError"]

\* The local variables after the ranks are read (lines 164-169).
ReadRanks(x, event_shape, batch_shape, sample_shape) ==
  [status |-> "ok", x |-> x,
   event_shape |-> event_shape, batch_shape |-> batch_shape, sample_shape |-> sample_shape,
   ndims |-> RankOf(x), sample_ndims |-> RankOf(sample_shape),
   batch_ndims |-> RankOf(batch_shape), event_ndims |-> RankOf(event_shape)]

\* Infer rank(x).
InferRank(f) ==
  IF f.ndims = NoInt /\ f.sample_ndims # NoInt /\ f.batch_ndims # NoInt
     /\ f.event_ndims # NoInt
  THEN SetShape([f EXCEPT !.ndims = <<f.sample_ndims[1] + f.batch_ndims[1] + f.event_ndims[1]>>],
                KnownShape(Nones(f.sample_ndims[1] + f.batch_ndims[1] + f.event_ndims[1])))
  ELSE f

\* Infer sample shape.
InferSampleShape(f) ==
  IF f.status = "ok" /\ f.ndims # NoInt /\ f.sample_ndims # NoInt
  THEN SetShape(f, Concatenate(f.sample_shape,
                               KnownShape(Nones(f.ndims[1] - f.sample_ndims[1]))))
  ELSE f

\* Infer event shape.
InferEventShape(f) ==
  IF f.status = "ok" /\ f.ndims # NoInt /\ f.event_ndims # NoInt
  THEN SetShape(f, Concatenate(KnownShape(Nones(f.ndims[1] - f.event_ndims[1])),
                               f.event_shape))
  ELSE f

\* The batch rank is computed too when it is the one that is missing.
InferMissingRankEvenBatch(f) ==
  IF f.batch_ndims = NoInt /\ f.ndims # NoInt /\ f.sample_ndims # NoInt
     /\ f.event_ndims # NoInt
  THEN [f EXCEPT !.batch_ndims = <<f.ndims[1] - f.sample_ndims[1] - f.event_ndims[1]>>]
  ELSE IF f.batch_ndims # NoInt /\ f.ndims # NoInt
    THEN IF f.sample_ndims = NoInt /\ f.event_ndims # NoInt
         THEN [f EXCEPT !.sample_ndims = <<f.ndims[1] - f.batch_ndims[1] - f.event_ndims[1]>>]
         ELSE IF f.event_ndims = NoInt /\ f.sample_ndims # NoInt
           THEN [f EXCEPT !.event_ndims = <<f.ndims[1] - f.batch_ndims[1] - f.sample_ndims[1]>>]
           ELSE f
    ELSE f

\* Lines 191-196: the sample or the event rank from the three others.
InferMissingRank(f) ==
  IF f.batch_ndims # NoInt /\ f.ndims # NoInt
  THEN IF f.sample_ndims = NoInt /\ f.event_ndims # NoInt
       THEN [f EXCEPT !.sample_ndims = <<f.ndims[1] - f.batch_ndims[1] - f.event_ndims[1]>>]
       ELSE IF f.event_ndims = NoInt /\ f.sample_ndims # NoInt
         THEN [f EXCEPT !.event_ndims = <<f.ndims[1] - f.batch_ndims[1] - f.sample_ndims[1]>>]
         ELSE f
  ELSE f

\* Lines 197-200: the batch shape between the sample and the event
\* dimensions.
PlaceBatchShape(f) ==
  IF f.batch_ndims # NoInt /\ f.sample_ndims # NoInt /\ f.event_ndims # NoInt
  THEN SetShape(f, Concatenate(Concatenate(KnownShape(Nones(f.sample_ndims[1])),
                                           f.batch_shape),
                               KnownShape(Nones(f.event_ndims[1]))))
  ELSE f

\* Infer batch shape.
InferBatchShape(f) == IF f.status = "ok" THEN PlaceBatchShape(InferMissingRank(f)) ELSE f

\* _set_sample_static_shape_for_tensor(x, event_shape, batch_shape,
\* sample_shape): the local variables at the end, x among them.
SetSampleStaticShapeForTensor(x, event_shape, batch_shape, sample_shape) ==
  InferBatchShape(InferEventShape(InferSampleShape(InferRank(
    ReadRanks(x, event_shape, batch_shape, sample_shape)))))

\* The shape of a sample of s sample, b batch and e event dimensions.
ShapeOfRanks(s, b, e) ==
  KnownShape([i \in 1..s |-> <<2>>] \o [i \in 1..b |-> <<3>>] \o [i \in 1..e |-> <<4>>])

\* What may be known statically of a shape.
StaticViews(shape) ==
  {UnknownShape, KnownShape(Nones(Len(shape.dims))), shape}

\* tf.TensorShape(tf.get_static_value(sample_shape))
StaticSampleShapes(shape) == {UnknownShape, shape}

NoShapeCall == [status |-> "none"]

InitShapes ==
  /\ \E s \in 0..MaxRank, b \in 0..MaxRank, e \in 0..MaxRank :
       shp \in [s : {s}, b : {b}, e : {e},
                x : StaticViews(ShapeOfRanks(s, b, e)),
                sample_shape : StaticSampleShapes(ShapeOfRanks(s, 0, 0)),
                batch_shape : StaticViews(ShapeOfRanks(0, b, 0)),
                event_shape : StaticViews(ShapeOfRanks(0, 0, e)),
                done : {FALSE}, out : {NoShapeCall}]
  /\ jd = Idle /\ cache = Idle /\ nbuilds = Idle /\ last = Idle /\ rcall = Idle
  /\ nres = Idle /\ parts = Idle /\ dist = Idle /\ params = Idle /\ win = Idle
  /\ ctl = Idle /\ walk = Idle

\* _set_sample_static_shape(x, sample_shape) on a single tensor.
SetSampleStaticShape ==
  /\ ~shp.done
  /\ shp' = [shp EXCEPT !.done = TRUE,
               !.out = SetSampleStaticShapeForTensor(shp.x, shp.event_shape,
                                                     shp.batch_shape, shp.sample_shape)]
  /\ UNCHANGED <<jd, cache, nbuilds, last, rcall, nres, parts, dist, params, win, ctl, walk>>

NextShapes == SetSampleStaticShape

SpecShapes == InitShapes /\ [][NextShapes]_vars

(***************************************************************************)
(* Vocabulary of the resolver claims: the shape of the call in rcall.      *)
(***************************************************************************)
NumComponents == Len(jd.names)

HasValueKw == "value" \in DOMAIN rcall.kwargs

HasRespectedValueKw == HasValueKw /\ rcall.kwargs["value"] # None

ComponentKw == Range(jd.names) \cap DOMAIN rcall.kwargs

OtherKw == Restrict(rcall.kwargs, DOMAIN rcall.kwargs \ {"value"})

IsOrderedModel == jd.kind \in {"list", "odict"}

IsSinglePositionalCall == Len(rcall.args) = 1 /\ ComponentKw = {}

CountMatches == Len(rcall.args) + Cardinality(ComponentKw) = NumComponents

\* The call reaches the statement that assembles the value (line 717).
AtAssembly ==
  /\ rcall.done
  /\ ~HasValueKw
  /\ ~IsSinglePositionalCall
  /\ CountMatches
  /\ ~(Len(rcall.args) > 0 /\ jd.kind = "dict")

Returned(value) == rcall.res.status = "ok" /\ rcall.res.value = value

(***************************************************************************)
(* C1                                                                      *)
(***************************************************************************)
\* A call that gives the first p components by position and the remaining
\* ones by keyword (p = n: all positional, p = 0: all keywords).
C1_PositionalThenKeywords ==
  /\ ~HasValueKw
  /\ Len(rcall.args) <= NumComponents
  /\ ComponentKw = {jd.names[i] : i \in (Len(rcall.args) + 1)..NumComponents}

C1_ExplicitStructure ==
  /\ rcall.args = <<>>
  /\ ComponentKw = {}
  /\ HasValueKw
  /\ rcall.kwargs["value"] \in ValueStructs(jd)

C1_ComponentValue(i) ==
  IF i \in DOMAIN rcall.args THEN rcall.args[i] ELSE rcall.kwargs[jd.names[i]]

\* C1: on an ordered model with n >= 2 components, the all-positional call,
\* the all-keywords call, the positional-prefix-then-keywords call and the
\* value=[v1..vn] call all return the same structure [v1..vn].
C1_FourCallingStyles ==
  (rcall.done /\ IsOrderedModel /\ NumComponents >= 2) =>
    /\ C1_PositionalThenKeywords =>
         Returned(ModelUnflatten(jd, [i \in DOMAIN jd.names |-> C1_ComponentValue(i)]))
    /\ C1_ExplicitStructure => Returned(rcall.kwargs["value"])

C1_Witness ==
  /\ rcall.done
  /\ jd.kind = "list"
  /\ NumComponents = 3
  /\ rcall.args = <<Leaf(1), Leaf(2)>>
  /\ rcall.kwargs = [k \in {"x"} |-> Leaf(1)]
  /\ Returned(ListOf(<<Leaf(1), Leaf(2), Leaf(1)>>))

(***************************************************************************)
(* C2                                                                      *)
(***************************************************************************)
C2_NonKeywordUpTo(i) ==
  Cardinality({j \in 1..i : jd.names[j] \notin DOMAIN rcall.kwargs})

\* C2 as stated: in the final assembly step a keyword component takes the
\* keyword's value and every other component takes the next not-yet-used
\* positional argument, so that f(2., 3., z=1.) resolves to [1., 2., 3.].
C2_NextUnusedPositional ==
  AtAssembly =>
    Returned(ModelUnflatten(jd,
      [i \in DOMAIN jd.names |->
         IF jd.names[i] \in DOMAIN rcall.kwargs
         THEN rcall.kwargs[jd.names[i]]
         ELSE rcall.args[C2_NonKeywordUpTo(i)]]))

\* C2 amended: in the final assembly step a keyword component takes the
\* keyword's value and every other component takes the positional argument
\* at its own declaration index; when that index is beyond the positional
\* arguments the call raises IndexError and resolves nothing.
C2_OwnIndexPositional ==
  AtAssembly =>
    IF \E i \in DOMAIN jd.names :
         jd.names[i] \notin DOMAIN rcall.kwargs /\ i > Len(rcall.args)
    THEN rcall.res.status = "IndexError"
    ELSE Returned(ModelUnflatten(jd,
           [i \in DOMAIN jd.names |->
              IF jd.names[i] \in DOMAIN rcall.kwargs
              THEN rcall.kwargs[jd.names[i]]
              ELSE rcall.args[i]]))

C2_Witness ==
  /\ AtAssembly
  /\ jd.kind = "list"
  /\ NumComponents = 3
  /\ rcall.args = <<Leaf(2), Leaf(1)>>
  /\ rcall.kwargs = [k \in {"z"} |-> Leaf(1)]
  /\ rcall.res.status = "IndexError"

(***************************************************************************)
(* C3                                                                      *)
(***************************************************************************)
\* C3 as stated: whenever the call carries a keyword named value, that
\* keyword's value is returned and every other keyword is unmatched.
C3_ValueKeywordWins ==
  (rcall.done /\ HasValueKw) =>
    /\ Returned(rcall.kwargs["value"])
    /\ rcall.res.unmatched = OtherKw

\* C3 amended: whenever the call carries a keyword named value whose value
\* is not None, that value is returned and every other keyword is unmatched.
C3_NonNoneValueKeywordWins ==
  (rcall.done /\ HasRespectedValueKw) =>
    /\ Returned(rcall.kwargs["value"])
    /\ rcall.res.unmatched = OtherKw

C3_Witness ==
  /\ rcall.done
  /\ HasRespectedValueKw
  /\ Len(rcall.args) = 2
  /\ ComponentKw # {}
  /\ "foo" \in DOMAIN rcall.kwargs
  /\ Returned(rcall.kwargs["value"])
  /\ ComponentKw \subseteq DOMAIN rcall.res.unmatched

(***************************************************************************)
(* C4                                                                      *)
(***************************************************************************)
\* C4: with no value keyword and outside the single-positional case, the
\* count error is raised exactly when positional arguments plus keywords
\* naming components differ from the number of components.
C4_CountError ==
  (rcall.done /\ ~HasValueKw /\ ~IsSinglePositionalCall) =>
    (rcall.res.status = "ValueError:count" <=> ~CountMatches)

C4_Witness ==
  /\ rcall.done
  /\ NumComponents = 3
  /\ rcall.args = <<Leaf(1), Leaf(2)>>
  /\ rcall.kwargs = EmptyKw
  /\ rcall.res.status = "ValueError:count"

(***************************************************************************)
(* C5                                                                      *)
(***************************************************************************)
\* C5 as stated: one positional argument, no keyword naming a component and
\* more than one component: the argument is returned unchanged with all
\* keywords unmatched (all keywords other than value itself).
C5_SoleArgIsWholeValue ==
  (rcall.done /\ IsSinglePositionalCall /\ NumComponents > 1) =>
    /\ Returned(rcall.args[1])
    /\ rcall.res.unmatched = OtherKw

\* C5 amended: the same, provided the call carries no value keyword other
\* than value=None.
C5_SoleArgIsWholeValueNoValueKw ==
  (rcall.done /\ ~HasRespectedValueKw /\ IsSinglePositionalCall
              /\ NumComponents > 1) =>
    /\ Returned(rcall.args[1])
    /\ rcall.res.unmatched = OtherKw

C5_Witness ==
  /\ rcall.done
  /\ NumComponents = 2
  /\ rcall.args = <<Leaf(1)>>
  /\ rcall.kwargs = [k \in {"foo"} |-> Leaf(1)]
  /\ Returned(Leaf(1))
  /\ rcall.res.unmatched = rcall.kwargs

(***************************************************************************)
(* C6                                                                      *)
(***************************************************************************)
C6_Expected ==
  IF SameStructure(jd.ctypes[1], rcall.args[1])
  THEN ModelUnflatten(jd, <<rcall.args[1]>>)
  ELSE rcall.args[1]

\* C6 as stated: on a one-component model a sole positional argument that
\* structurally matches the component's dtype is wrapped into the length-1
\* structure, and is otherwise returned unchanged.
C6_SoleArgOneComponent ==
  (rcall.done /\ NumComponents = 1 /\ Len(rcall.args) = 1) =>
    Returned(C6_Expected)

\* C6 amended: the same, provided the call carries no value keyword other
\* than value=None and no keyword naming the component; hence f(4.) and
\* f([4.]) both resolve to [4.] on a one-component list model of scalar dtype.
C6_SoleArgOneComponentNoKw ==
  (rcall.done /\ NumComponents = 1 /\ Len(rcall.args) = 1
              /\ ~HasRespectedValueKw /\ ComponentKw = {}) =>
    /\ Returned(C6_Expected)
    /\ (jd.kind = "list" /\ jd.ctypes[1] = Float32) =>
         \A v \in Leaves :
           rcall.args \in {<<v>>, <<ListOf(<<v>>)>>} => Returned(ListOf(<<v>>))

C6_Witness ==
  /\ rcall.done
  /\ jd.kind = "list"
  /\ NumComponents = 1
  /\ jd.ctypes[1] = Float32
  /\ rcall.args = <<ListOf(<<Leaf(1)>>)>>
  /\ rcall.kwargs = EmptyKw
  /\ Returned(ListOf(<<Leaf(1)>>))

(***************************************************************************)
(* C7                                                                      *)
(***************************************************************************)
\* C7 as stated: on an unordered-mapping model no call with a positional
\* argument returns a value.
C7_UnorderedRejectsPositional ==
  (rcall.done /\ jd.kind = "dict" /\ Len(rcall.args) >= 1) =>
    rcall.res.status # "ok"

\* C7 amended: on an unordered-mapping model every call with a positional
\* argument that carries no value keyword other than value=None and is not
\* the single-positional case fails: with the count error when the count
\* differs, otherwise with the unordered-positional error.
C7_UnorderedRejectsPositionalComponents ==
  (rcall.done /\ jd.kind = "dict" /\ Len(rcall.args) >= 1
              /\ ~HasRespectedValueKw /\ ~IsSinglePositionalCall) =>
    rcall.res.status = (IF CountMatches THEN "ValueError:unordered"
                                       ELSE "ValueError:count")

C7_Witness ==
  /\ rcall.done
  /\ jd.kind = "dict"
  /\ NumComponents = 3
  /\ Len(rcall.args) = 2
  /\ ComponentKw = {"x"}
  /\ rcall.res.status = "ValueError:unordered"

(***************************************************************************)
(* Vocabulary of the claims about the public calls: the call in last.      *)
(***************************************************************************)
PublicOps == {"sample", "sample_distributions", "log_prob", "prob"}

ValueErrors ==
  {"ValueError:count", "ValueError:unordered", "ValueError:unexpected_keywords",
   "ValueError:value_and_keywords", "ValueError:none_part"}

LastComponentKw == Range(jd.names) \cap DOMAIN last.kwargs

LastStrayKw == DOMAIN last.kwargs \ (Range(jd.names) \cup FORBIDDEN_COMPONENT_NAMES)

(***************************************************************************)
(* C8                                                                      *)
(***************************************************************************)
\* C8: a call of sample, sample_distributions, log_prob or prob carrying a
\* keyword that is neither a component name nor value nor name fails with
\* the unmatched-keyword error; no such call returns a result.
C8_StrayKeywordFails ==
  (last.op \in PublicOps /\ LastStrayKw # {}) => last.status # "ok"

(***************************************************************************)
(* C9                                                                      *)
(***************************************************************************)
\* C9: sample with a non-None value and at least one component keyword fails
\* with the usage error that lists the supplied keywords, without any call
\* of _flat_sample_distributions and without writing the cache.
C9_SampleValueAndKeywords ==
  (last.op = "sample" /\ last.value # None /\ LastComponentKw # {}) =>
    /\ last.status = "ValueError:value_and_keywords"
    /\ last.detail = DOMAIN last.kwargs
    /\ last.built = 0
    /\ ~last.cacheChanged

C9_Witness ==
  /\ last.op = "sample"
  /\ last.value # None
  /\ LastComponentKw # {}
  /\ last.status = "ValueError:value_and_keywords"
  /\ nbuilds > 0
  /\ cache[last.ctx] # NoDs

(***************************************************************************)
(* C10                                                                     *)
(***************************************************************************)
\* C10: sample_distributions with a non-None value and component keywords
\* raises a ValueError.
C10_SampleDistributionsValueAndKeywords ==
  (last.op = "sample_distributions" /\ last.value # None /\ LastComponentKw # {}) =>
    last.status \in ValueErrors

(***************************************************************************)
(* Vocabulary of the name claims.                                          *)
(***************************************************************************)
\* The name component i stands for: the one the user gave, else var<i-1>.
NameOfComponent(model, i) ==
  LET explicit == GetExplicitNameForComponent(model.names[i]).name
  IN IF explicit = NoName THEN DummyName(i - 1) ELSE explicit

RepeatsEarlierName(model, j) ==
  \E i \in 1..(j - 1) : NameOfComponent(model, i) = NameOfComponent(model, j)

HasDuplicateNames(model) == \E j \in DOMAIN model.names : RepeatsEarlierName(model, j)

HasForbiddenName(model) ==
  \E i \in DOMAIN model.names : NameOfComponent(model, i) \in FORBIDDEN_COMPONENT_NAMES

\* A forbidden name stands at or before the first repeated name.
ForbiddenNameComesFirst(model) ==
  \E i \in DOMAIN model.names :
    /\ NameOfComponent(model, i) \in FORBIDDEN_COMPONENT_NAMES
    /\ \A j \in 1..(i - 1) : ~RepeatsEarlierName(model, j)

\* log_prob, prob, or sample parameterised by keywords.
LastResolvesNames ==
  \/ last.op \in {"log_prob", "prob"}
  \/ last.op = "sample" /\ last.value = None /\ last.kwargs # EmptyKw

(***************************************************************************)
(* C11.  As stated: on a model whose components carry duplicate names,     *)
(* every log_prob, prob and keyword-parameterised sample call - the first  *)
(* one and every later one - fails with the duplicate-name error.          *)
(***************************************************************************)
C11_DuplicateNamesRaiseOnEveryCall ==
  (HasDuplicateNames(jd) /\ LastResolvesNames) =>
    last.status = "ValueError:duplicated_name"

\* C11, amended: such a call fails with the duplicate-name error unless a
\* component named `value` or `name` stands at or before the first repeated
\* name, and then it fails with the forbidden-name error.
C11_DuplicateNamesRaiseUnlessForbiddenFirst ==
  (HasDuplicateNames(jd) /\ LastResolvesNames) =>
    last.status = IF ForbiddenNameComesFirst(jd) THEN "ValueError:forbidden_name"
                                                 ELSE "ValueError:duplicated_name"

\* A call that was not the first one (it built nothing) fails on the
\* duplicate names of a model that was constructed with them.
C11_Witness ==
  /\ HasDuplicateNames(jd) /\ ~HasForbiddenName(jd)
  /\ last.op = "prob" /\ last.built = 0
  /\ last.status = "ValueError:duplicated_name"

(***************************************************************************)
(* C12.  _flat_resolve_names returns exactly when the names of the         *)
(* components (the given ones and the dummy names var<i>) are pairwise     *)
(* distinct and none is `value` or `name`; the list it returns then has    *)
(* one name per component, these names in order; otherwise it raises.      *)
(***************************************************************************)
C12_ResolvedNamesDistinctAndAllowed ==
  nres.op = "_flat_resolve_names" =>
    /\ nres.status = "ok" <=> (~HasDuplicateNames(jd) /\ ~HasForbiddenName(jd))
    /\ nres.status = "ok" =>
         /\ Len(nres.names) = Len(jd.names)
         /\ \A i, j \in DOMAIN nres.names : i # j => nres.names[i] # nres.names[j]
         /\ \A i \in DOMAIN nres.names :
              /\ nres.names[i] \notin FORBIDDEN_COMPONENT_NAMES
              /\ nres.names[i] = NameOfComponent(jd, i)

\* A list with a given name and a generated one is returned.
C12_Witness ==
  /\ nres.op = "_flat_resolve_names" /\ nres.status = "ok"
  /\ nres.names = <<"var0", "z">>

\* An explicit name equal to a later dummy name makes the call raise.
C12_WitnessDummyClash ==
  /\ nres.op = "_flat_resolve_names" /\ nres.status = "ValueError:duplicated_name"
  /\ jd.names = <<"var1", DefaultName>>

(***************************************************************************)
(* Vocabulary of the claims on the per-component results.                  *)
(***************************************************************************)
\* Component i's log_prob at value i, the component being built from the
\* supplied upstream values.
LogProbOfComponent(i) ==
  ComponentLogProb(ComponentDistribution(parts.value, i), parts.value[i])

RECURSIVE SumOfFills(_, _)
SumOfFills(xs, n) == IF n = 0 THEN 0 ELSE SumOfFills(xs, n - 1) + xs[n].v

RECURSIVE JointShape(_, _)
JointShape(xs, n) ==
  IF n = 0 THEN <<>> ELSE BroadcastShape(JointShape(xs, n - 1), xs[n].shape)

\* The entries can be added up: their shapes broadcast against each other.
Summable(xs) == \A i, j \in DOMAIN xs : CanBroadcast(xs[i].shape, xs[j].shape)

\* The sum of the entries: the fills add up in the joint shape.
SumOfEntries(xs) == Tensor(JointShape(xs, Len(xs)), SumOfFills(xs, Len(xs)))

PartsOps == {"log_prob", "log_prob_parts", "prob_parts"}

\* The per-component results the operation works on.
ComponentResults(op) ==
  MapMeasure(IF op = "prob_parts" THEN "prob" ELSE "log_prob", parts.value)

IdenticalShapes(xs) == \A i, j \in DOMAIN xs : xs[i].shape = xs[j].shape

BroadcastErrors == {"ValueError:broadcast", "InvalidArgumentError:broadcast"}

(***************************************************************************)
(* C13.  Entry i of log_prob_parts is component i's log_prob at value i,   *)
(* the component being built from the upstream values, and log_prob of the *)
(* same value is the sum of these entries in flatten order; log_prob       *)
(* returns exactly when log_prob_parts returns entries that can be summed. *)
(***************************************************************************)
C13_LogProbIsSumOfParts ==
  LET lp == parts.log_prob
      lpp == parts.log_prob_parts
  IN /\ lpp.status = "ok" =>
          /\ Len(lpp.result) = Len(parts.value)
          /\ \A i \in DOMAIN lpp.result : lpp.result[i] = LogProbOfComponent(i)
     /\ (lp.status # "none" /\ lpp.status # "none") =>
          /\ lp.status = "ok" <=> (lpp.status = "ok" /\ Summable(lpp.result))
          /\ lp.status = "ok" => lp.result = <<SumOfEntries(lpp.result)>>

\* Three components, each located at the value before it, with nonzero
\* entries of one shape.
C13_Witness ==
  /\ parts.log_prob.status = "ok" /\ parts.log_prob_parts.status = "ok"
  /\ Len(parts.value) = MaxParts
  /\ \A i \in DOMAIN parts.value : parts.log_prob_parts.result[i].v < 0
  /\ parts.log_prob.result[1].v = 0 - MaxParts
  /\ parts.log_prob.result[1].shape = <<MaxDim>>

(***************************************************************************)
(* C14.  As stated: with validate_args set, log_prob, log_prob_parts and   *)
(* prob_parts fail with the broadcast error whenever the per-component     *)
(* results do not all have the identical shape; with validate_args unset   *)
(* log_prob_parts and prob_parts return the results unchanged.             *)
(***************************************************************************)
C14_ValidateArgsRejectsUnequalShapes ==
  \A op \in PartsOps :
    LET o == parts[op]
        xs == ComponentResults(op)
    IN (o.status # "none" /\ xs.status = "ok") =>
         /\ (parts.validate_args /\ ~IdenticalShapes(xs.xs)) =>
               o.status \in BroadcastErrors
         /\ (~parts.validate_args /\ op # "log_prob") =>
               (o.status = "ok" /\ o.result = xs.xs)

(***************************************************************************)
(* Vocabulary of the claims on the wrappers.                               *)
(***************************************************************************)
Has(prim) == prim \in dist.prims

\* The last call went by the rule: own primitive, else fn of the sibling
\* primitive, else NotImplementedError.
OwnThenSibling(own, sibling, fn) ==
  LET x == dist.call.x
      out == dist.call.out
  IN /\ Has(own) => out = Returns(Prim(own, x))
     /\ (~Has(own) /\ Has(sibling)) => out = Returns(Apply(fn, Prim(sibling, x)))
     /\ out.status = "NotImplementedError" <=> (~Has(own) /\ ~Has(sibling))

(***************************************************************************)
(* C15.  log_prob, prob, log_cdf and cdf use the subtype's own primitive   *)
(* when it exists, else log or exp of the sibling primitive, and raise     *)
(* NotImplementedError only when neither exists; hence with only _log_prob *)
(* prob(x) is exp(log_prob(x)) and with only _prob log_prob(x) is          *)
(* log(prob(x)).                                                           *)
(***************************************************************************)
C15_OwnPrimitiveElseSibling ==
  LET op == dist.call.op
      x == dist.call.x
      out == dist.call.out
  IN /\ op = "log_prob" => OwnThenSibling("_log_prob", "_prob", "log")
     /\ op = "prob" => OwnThenSibling("_prob", "_log_prob", "exp")
     /\ op = "log_cdf" => OwnThenSibling("_log_cdf", "_cdf", "log")
     /\ op = "cdf" => OwnThenSibling("_cdf", "_log_cdf", "exp")
     /\ (op = "prob" /\ Has("_log_prob") /\ ~Has("_prob")) =>
          out = Returns(Apply("exp", CallLogProb(dist, x).result))
     /\ (op = "log_prob" /\ Has("_prob") /\ ~Has("_log_prob")) =>
          out = Returns(Apply("log", CallProb(dist, x).result))

\* prob on a subtype that implements _log_prob and not _prob.
C15_Witness ==
  /\ dist.call.op = "prob" /\ Has("_log_prob") /\ ~Has("_prob")
  /\ dist.call.out.result = Apply("exp", Prim("_log_prob", <<1>>))

(***************************************************************************)
(* C16.  log_survival_function and survival_function use the subtype's own *)
(* primitive if it exists; else log1mexp resp. -expm1 of _log_cdf if that  *)
(* exists, also when _cdf exists; else a derivation from _cdf; else they   *)
(* raise NotImplementedError.                                              *)
(***************************************************************************)
C16_SurvivalResolutionOrder ==
  \A log \in BOOLEAN :
    LET op == IF log THEN "log_survival_function" ELSE "survival_function"
        own == IF log THEN "_log_survival_function" ELSE "_survival_function"
        x == dist.call.x
        out == dist.call.out
    IN dist.call.op = op =>
         /\ Has(own) => out = Returns(Prim(own, x))
         /\ (~Has(own) /\ Has("_log_cdf")) =>
              out = Returns(IF log THEN Apply("log1mexp", Prim("_log_cdf", x))
                                   ELSE Apply("neg", Apply("expm1", Prim("_log_cdf", x))))
         /\ (~Has(own) /\ ~Has("_log_cdf") /\ Has("_cdf")) =>
              /\ out.status = "ok"
              /\ out.result.base = "_cdf" /\ out.result.x = x
              /\ out.result.fns # <<>>
         /\ out.status = "NotImplementedError" <=>
              (~Has(own) /\ ~Has("_log_cdf") /\ ~Has("_cdf"))

\* Both _log_cdf and _cdf exist and the result comes from _log_cdf.
C16_Witness ==
  /\ dist.call.op = "log_survival_function"
  /\ ~Has("_log_survival_function") /\ Has("_log_cdf") /\ Has("_cdf")
  /\ dist.call.out.result = Apply("log1mexp", Prim("_log_cdf", <<1>>))

(***************************************************************************)
(* C17.  With validate_args set and a quantile primitive, quantile(p) on a *)
(* p above 1 fails with the message that the value must be <= 1, on a p    *)
(* below 0 with the message that it must be >= 0, and the primitive gives  *)
(* a result only for a p with 0 <= p <= 1 (for a p of several entries:     *)
(* all above 1, all below 0, all in the range).                            *)
(***************************************************************************)
C17_QuantileChecksRange ==
  LET p == dist.call.x
      out == dist.call.out
  IN (dist.call.op = "quantile" /\ dist.validate_args /\ Has("_quantile")) =>
       /\ (\A i \in DOMAIN p : p[i] > 1) =>
            (out.status = "InvalidArgumentError" /\ out.msg = "value must be <= 1")
       /\ (\A i \in DOMAIN p : p[i] < 0) =>
            (out.status = "InvalidArgumentError" /\ out.msg = "value must be >= 0")
       /\ out.status = "ok" <=> \A i \in DOMAIN p : 0 <= p[i] /\ p[i] <= 1
       /\ out.status = "ok" => out.result = Prim("_quantile", p)

\* In a graph, a p below 0 is reported by the second assertion.
C17_Witness ==
  /\ dist.call.op = "quantile" /\ dist.validate_args /\ Has("_quantile")
  /\ dist.mode = "graph" /\ dist.call.x = <<-1>>
  /\ dist.call.out.msg = "value must be >= 0"

(***************************************************************************)
(* Vocabulary of the claims on the parameters.                             *)
(***************************************************************************)
\* What a read of the parameters of object i returns in this state.
ParametersOf(i) == Parameters(params.objs[i], i).dict

(***************************************************************************)
(* C18.  After d.copy has returned for any overrides, the parameters of    *)
(* the copy equal dict(d.parameters, **overrides), d.parameters being read *)
(* before the copy; with no overrides they equal d.parameters; and the     *)
(* parameters of d are what they were.                                     *)
(***************************************************************************)
C18_CopyParametersAreUpdatedParameters ==
  LET c == params.call
  IN (c.op = "copy" /\ c.status = "ok") =>
       /\ ParametersOf(c.new) = DictUpdate(c.before, c.overrides)
       /\ c.overrides = EmptyDict => ParametersOf(c.new) = c.before
       /\ ParametersOf(c.obj) = c.before

\* A copy that overrides loc with the original itself, on a subtype
\* without batch slicing.
C18_Witness ==
  LET c == params.call
  IN /\ c.op = "copy" /\ c.status = "ok"
     /\ ~params.objs[c.obj].cls.sliceable
     /\ c.overrides = [k \in {"loc"} |-> Ref(c.obj)]
     /\ ParametersOf(c.new) = [k \in {"loc", "name"} |-> IF k = "loc" THEN Ref(c.obj)
                                                                     ELSE c.before[k]]

(***************************************************************************)
(* C19.  Every read of the parameters of an object returns the dictionary  *)
(* that its first read returned, whatever was done in between (reads,      *)
(* copies, changes the caller made to a returned dictionary), and no       *)
(* returned dictionary has the object itself as a value.                   *)
(***************************************************************************)
C19_ParametersStable ==
  LET c == params.call
  IN c.op = "parameters" =>
       /\ c.result = params.first[c.obj].dict
       /\ \A k \in DOMAIN c.result : c.result[k] # Ref(c.obj)

\* A later read of an object that has been copied and whose returned
\* dictionary the caller has changed since.
C19_Witness ==
  LET c == params.call
  IN /\ c.op = "parameters" /\ c.obj = 1
     /\ params.history[1].nreads = MaxReads /\ params.history[1].mutated
     /\ Len(params.objs) = MaxObjects
     /\ c.result = [k \in {"loc", "name"} |-> IF k = "loc" THEN V(1) ELSE V(0)]

(***************************************************************************)
(* C20.  For every number N >= 0 of adaptation draws, the window sizes     *)
(* satisfy first_window + slow_window * (1 + 2 + 4 + 8) + last_window = N: *)
(* the total the test computes from them is N.                             *)
(***************************************************************************)
C20_WindowsAddUpToDraws == win.done => win.total = win.num_draws

\* A number of draws that 21 does not divide.
C20_Witness ==
  /\ win.done /\ win.num_draws = 524
  /\ win.sizes = <<72, 24, 92>>
(***************************************************************************)
(* C21.  For 525 adaptation draws the window sizes are first_window = 75,  *)
(* slow_window = 25 and last_window = 75.                                  *)
(***************************************************************************)
C21_WindowsOf525 ==
  win.done /\ win.num_draws = 525 => win.sizes = <<75, 25, 75>>

C21_Witness == win.done /\ win.num_draws = 525 /\ win.total = 525

(***************************************************************************)
(* C22.  As stated: for each tested number N of draws the three returned   *)
(* sizes add up to N, first_window + slow_window + last_window = N.        *)
(***************************************************************************)
SumOfSizes == win.sizes[1] + win.sizes[2] + win.sizes[3]

C22_SizesSumToDraws ==
  win.done /\ win.num_draws \in TestedDraws => SumOfSizes = win.num_draws

(***************************************************************************)
(* C22, amended.  For each tested N the sizes satisfy first_window +       *)
(* 15 * slow_window + last_window = N, the slow window counting 1 + 2 + 4  *)
(* + 8 times; the plain sum of the three sizes is N - 14 * slow_window,    *)
(* which is N exactly when the slow window is empty (N < 21).              *)
(***************************************************************************)
C22_SizesWeightedSumToDraws ==
  win.done /\ win.num_draws \in TestedDraws =>
    /\ win.total = win.num_draws
    /\ win.total = win.sizes[1] + 15 * win.sizes[2] + win.sizes[3]
    /\ SumOfSizes = win.num_draws - 14 * win.sizes[2]
    /\ (SumOfSizes = win.num_draws <=> win.num_draws < 21)

\* 100 draws: the sizes 12, 4, 28 add up to 44.
C22_Witness ==
  /\ win.done /\ win.num_draws = 100
  /\ win.sizes = <<12, 4, 28>> /\ SumOfSizes = 44
(***************************************************************************)
(* Vocabulary of the cache claims.                                         *)
(***************************************************************************)
\* The entry of context c holds a complete list of component distributions.
HoldsComplete(c) == cache[c] # NoDs /\ Complete(cache[c])

\* The last call was a single sample without pins nor keywords, so that it
\* offered the distributions it built to the cache.
LastOfferedCandidates ==
  /\ last.op \in {"sample", "sample_distributions"} /\ last.status = "ok"
  /\ last.shape = <<>> /\ last.value = None /\ last.kwargs = EmptyKw
  /\ last.built = 1

(***************************************************************************)
(* C23.  Over every sequence of sample, sample_distributions, log_prob,    *)
(* prob and dtype calls from any contexts, a cache entry that holds a      *)
(* complete list of distributions is never overwritten nor removed by a    *)
(* later call, and no entry of any context is ever evicted.                *)
(***************************************************************************)
C23_CompleteEntriesStay ==
  [][\A c \in Contexts :
       /\ HoldsComplete(c) => cache'[c] = cache[c]
       /\ cache[c] # NoDs => cache'[c] # NoDs]_vars

\* A sample call in a graph context whose entry was already populated (the
\* eager entry being empty) offered fresh distributions and the cache kept
\* the ones it had.
C23_Witness ==
  /\ LastOfferedCandidates /\ last.op = "sample"
  /\ last.ctx # EagerKey /\ cache[EagerKey] = NoDs
  /\ HoldsComplete(last.ctx) /\ ~last.cacheChanged
  /\ cache[last.ctx].id < nbuilds

(***************************************************************************)
(* C30.  Once the eager entry (key -1) is complete,                        *)
(* _get_single_sample_distributions returns that entry in every context,   *)
(* whatever candidates are offered, and leaves the cache as it is: no      *)
(* entry is created for the calling graph.                                 *)
(***************************************************************************)
Candidates == {NoDs, [id |-> nbuilds + 1, pins |-> {}, nones |-> {}]}

C30_EagerEntryServesEveryContext ==
  HoldsComplete(EagerKey) =>
    \A ctx \in Contexts, candidate_dists \in Candidates :
      LET g == GetSingleSampleDistributions(jd, State, ctx, candidate_dists)
      IN /\ g.ds = cache[EagerKey]
         /\ g.cache = cache
         /\ g.nb = nbuilds

\* With the eager entry complete, a sample call in a graph that has no
\* entry offered fresh distributions and the cache did not change.
C30_Witness ==
  /\ HoldsComplete(EagerKey)
  /\ LastOfferedCandidates /\ last.ctx # EagerKey
  /\ cache[last.ctx] = NoDs /\ ~last.cacheChanged
(***************************************************************************)
(* C26.  As stated: a sample or sample_distributions call that pins a      *)
(* component, through its value or through a component keyword, never      *)
(* populates the cache.                                                    *)
(***************************************************************************)
SampleOps == {"sample", "sample_distributions"}

LastPinsByValue == last.value # None

LastPinsByKeyword == last.value = None /\ LastComponentKw # {}

KeywordsAsValue(model, kwargs) ==
  ModelUnflatten(model, [i \in DOMAIN model.names |-> KwGet(kwargs, model.names[i], None)])

\* The same call with the value structure in place of the keywords.
LastCallWithValue(value) ==
  IF last.op = "sample"
  THEN SampleN(jd, State, last.ctx, last.shape, value, EmptyKw)
  ELSE SampleDistributions(jd, State, last.ctx, last.shape, value, EmptyKw)

C28_KeywordsActAsValueWithNones ==
  (/\ last.op \in SampleOps /\ last.value = None
   /\ DOMAIN last.kwargs \subseteq Range(jd.names)) =>
    LET v == LastCallWithValue(KeywordsAsValue(jd, last.kwargs))
        xs == ModelFlatten(last.result)
    IN /\ last.status = "ok"
       /\ v.status = "ok" /\ last.result = v.result
       /\ DOMAIN xs = DOMAIN jd.names
       /\ \A i \in DOMAIN jd.names :
            xs[i] = IF jd.names[i] \in DOMAIN last.kwargs
                    THEN last.kwargs[jd.names[i]] ELSE Sampled

\* Two components, the second one pinned by its keyword.
C28_Witness ==
  /\ last.op = "sample" /\ last.status = "ok" /\ last.value = None
  /\ Len(jd.names) = 2 /\ DOMAIN last.kwargs = {jd.names[2]}
  /\ ModelFlatten(last.result) = <<Sampled, Leaf(1)>>
(***************************************************************************)
(* C29.  A resolver call without value keyword that is not the single-     *)
(* positional case and whose count matches returns a value only if the     *)
(* keywords name exactly the last n - len(args) components; positional     *)
(* argument j is then the value of component j and every other component   *)
(* has its keyword's value.  If a keyword names one of the first len(args) *)
(* components the call raises.                                             *)
(***************************************************************************)
ReachesAssembly ==
  rcall.done /\ ~HasValueKw /\ ~IsSinglePositionalCall /\ CountMatches

LastComponents == {jd.names[i] : i \in (Len(rcall.args) + 1)..NumComponents}

KeywordNamesPositionalComponent ==
  \E i \in DOMAIN rcall.args : i <= NumComponents /\ jd.names[i] \in ComponentKw

C29_AssemblyBindsPositionalsInOrder ==
  ReachesAssembly =>
    /\ rcall.res.status = "ok" =>
         /\ ComponentKw = LastComponents
         /\ \A i \in 1..NumComponents :
              ModelFlatten(rcall.res.value)[i] =
                IF i <= Len(rcall.args) THEN rcall.args[i] ELSE rcall.kwargs[jd.names[i]]
    /\ KeywordNamesPositionalComponent => rcall.res.status # "ok"

\* f(1., 2., z=3.) for the names z, y, x.
C29_Witness ==
  /\ ReachesAssembly /\ NumComponents = 3 /\ jd.kind = "list"
  /\ rcall.args = <<Leaf(1), Leaf(2)>> /\ DOMAIN rcall.kwargs = {"z"}
  /\ rcall.res.status = "IndexError"

\* f(1., y=2., x=2.): a value is returned, the positional argument first.
C29_WitnessReturned ==
  /\ ReachesAssembly /\ NumComponents = 3 /\ jd.kind = "list"
  /\ rcall.args = <<Leaf(1)>> /\ DOMAIN rcall.kwargs = {"y", "x"}
  /\ rcall.res.status = "ok" /\ ModelFlatten(rcall.res.value)[1] = Leaf(1)
(***************************************************************************)
(* C24.  _parameter_control_dependencies is called with is_init=True once  *)
(* per instance, by __init__, and the result is stored without its None    *)
(* entries; every later public call has the stored result in front of its  *)
(* dependencies and calls _parameter_control_dependencies with             *)
(* is_init=False only.                                                     *)
(***************************************************************************)
C24_InitAssertionsComputedOnce ==
  ctl.constructed =>
    /\ ctl.pcd[1] /\ \A i \in DOMAIN ctl.pcd : i > 1 => ~ctl.pcd[i]
    /\ Len(ctl.pcd) = 1 + ctl.scopes
    /\ \A d \in Range(ctl.initial) : d # NoneOp /\ NoneOp \notin Range(d.inputs)
    /\ ctl.call.op # "none" =>
         /\ Len(ctl.call.deps) >= Len(ctl.initial)
         /\ SubSeq(ctl.call.deps, 1, Len(ctl.initial)) = ctl.initial

\* An instance constructed in graph mode whose class returns an assertion
\* and a None at construction, after a second call, made eagerly.
C24_Witness ==
  /\ ctl.constructed /\ ctl.scopes = MaxScopes
  /\ ctl.cls.init = <<Assertion("assert_positive"), NoneOp>>
  /\ ctl.initial = <<Group(<<Assertion("assert_positive")>>)>>
  /\ ctl.call.op = "log_prob" /\ ctl.call.eager
  /\ ctl.call.deps = ctl.initial
(***************************************************************************)
(* C25.  A conditioning walk over the flattened samples s[1..n] sends to   *)
(* the generator of the model once per sample and returns one bijector per *)
(* sample, the i-th one being that of component i (Identity if the         *)
(* component has none).  The first value sent is None; the value sent to   *)
(* obtain component i + 1 is s[i] in _walk_inverse (constrained) and       *)
(* bijector i's forward(s[i]) in _walk_forward (unconstrained).            *)
(***************************************************************************)
KindOfComponent(i) ==
  IF walk.model[i].bijector = "none" THEN "Identity"
  ELSE IF walk.model[i].bijector = "scale" THEN "Scale" ELSE "Shift"

C25_ConditioningWalk ==
  (walk.call.op # "none" /\ walk.call.conditioning # NoSamples) =>
    LET c == walk.call
        s == c.conditioning
    IN /\ Len(c.sent) = Len(s) /\ Len(c.bijectors) = Len(s)
       /\ c.sent[1] = NoCond
       /\ \A i \in DOMAIN s :
            /\ c.bijectors[i].kind = KindOfComponent(i)
            /\ walk.model[i].bijector = "none" => c.bijectors[i] = Identity
       /\ \A i \in 1..(Len(s) - 1) :
            c.sent[i + 1] = IF c.op = "_walk_inverse" THEN <<s[i]>>
                            ELSE <<Forward(c.bijectors[i], s[i])>>

\* A forward walk over the samples 1, 1, 1 of a model whose bijectors are
\* Scale, Shift by the parent, Shift by the parent: 2 and then 3 are sent.
C25_Witness ==
  /\ walk.call.op = "_walk_forward" /\ walk.call.conditioning = <<1, 1, 1>>
  /\ walk.call.sent = <<NoCond, <<2>>, <<3>>>>
  /\ walk.call.bijectors = <<Scale, Shift(2), Shift(3)>>

\* The inverse walk over the same samples sends the samples themselves.
C25_WitnessInverse ==
  /\ walk.call.op = "_walk_inverse" /\ walk.call.conditioning = <<1, 1, 1>>
  /\ walk.call.sent = <<NoCond, <<1>>, <<1>>>>
  /\ walk.call.bijectors = <<Scale, Shift(1), Shift(1)>>
(***************************************************************************)
(* Vocabulary of the static-shape claim: what is known before the call,    *)
(* and the ranks the function holds when it returns.                       *)
(***************************************************************************)
KnownBefore ==
  {r \in {"tensor", "sample", "batch", "event"} :
     \/ r = "tensor" /\ shp.x.known
     \/ r = "sample" /\ shp.sample_shape.known
     \/ r = "batch" /\ shp.batch_shape.known
     \/ r = "event" /\ shp.event_shape.known}

AllRanksInferred ==
  /\ shp.out.status = "ok"
  /\ shp.out.ndims # NoInt /\ shp.out.sample_ndims # NoInt
  /\ shp.out.batch_ndims # NoInt /\ shp.out.event_ndims # NoInt
  /\ shp.out.ndims[1] =
       shp.out.sample_ndims[1] + shp.out.batch_ndims[1] + shp.out.event_ndims[1]
  /\ shp.out.x.known /\ Len(shp.out.x.dims) = shp.out.ndims[1]

(***************************************************************************)
(* C27.  As stated: whenever at least three of the ranks of the tensor, of *)
(* the sample shape, of the batch shape and of the event shape are known   *)
(* statically, the function infers the fourth, so that tensor rank =       *)
(* sample rank + batch rank + event rank.                                  *)
(***************************************************************************)
C27_AnyThreeRanksGiveTheFourth ==
  (shp.done /\ Cardinality(KnownBefore) >= 3) => AllRanksInferred

(***************************************************************************)
(* C27, amended.  When the batch rank and at least two of the tensor, the  *)
(* sample and the event rank are known, the missing one is inferred so     *)
(* that tensor rank = sample rank + batch rank + event rank (the ranks of  *)
(* the sample), and the tensor gets that rank.  An unknown batch rank is   *)
(* never inferred.                                                         *)
(***************************************************************************)
C27_MissingRankInferredUnlessBatch ==
  shp.done =>
    /\ ("batch" \in KnownBefore /\ Cardinality(KnownBefore) >= 3) =>
         /\ AllRanksInferred
         /\ shp.out.sample_ndims = <<shp.s>> /\ shp.out.batch_ndims = <<shp.b>>
         /\ shp.out.event_ndims = <<shp.e>>
    /\ "batch" \notin KnownBefore =>
         /\ shp.out.status = "ok" /\ shp.out.batch_ndims = NoInt
         /\ shp.out.ndims = RankOf(shp.x)
         /\ shp.out.sample_ndims = RankOf(shp.sample_shape)
         /\ shp.out.event_ndims = RankOf(shp.event_shape)

\* A tensor of unknown rank gets the rank 2 + 1 + 2.
C27_Witness ==
  /\ shp.done /\ KnownBefore = {"sample", "batch", "event"}
  /\ shp.s = 2 /\ shp.b = 1 /\ shp.e = 2
  /\ shp.out.ndims = <<5>> /\ Len(shp.out.x.dims) = 5

\* The sample rank is the one that is missing.
C27_WitnessSample ==
  /\ shp.done /\ KnownBefore = {"tensor", "batch", "event"}
  /\ shp.s = 2 /\ shp.b = 1 /\ shp.e = 2
  /\ shp.out.sample_ndims = <<2>>

\* The batch rank is the one that is missing.
C27_WitnessBatch ==
  /\ shp.done /\ KnownBefore = {"tensor", "sample", "event"}
  /\ shp.b = 1 /\ shp.out.batch_ndims = NoInt
====
